---------------------------- MODULE Spec2Model ----------------------------
(***************************************************************************)
(* A model of Hype SceneMagic 2.7.2 (src/HypeSceneMagic.js, the revision   *)
(* that starts at line 824 of the file).  Strings are sequences of         *)
(* one-character strings so that slicing, trimming, case folding and       *)
(* suffix tests are computed as the JavaScript computes them.  Numbers     *)
(* are fixed-point integers with three decimals (1000 is 1.0).             *)
(***************************************************************************)
EXTENDS Integers, Sequences, FiniteSets, TLC

(***************************************************************************)
(* Bounds of the model.                                                    *)
(***************************************************************************)
MaxClasses == 2
MaxTokens == 2
MaxTotal == 4

(***************************************************************************)
(* JavaScript string primitives.                                           *)
(***************************************************************************)
Null == <<"<null>">>

UpperLetters == <<"A","B","C","D","E","F","G","H","I","J","K","L","M",
                  "N","O","P","Q","R","S","T","U","V","W","X","Y","Z">>
LowerLetters == <<"a","b","c","d","e","f","g","h","i","j","k","l","m",
                  "n","o","p","q","r","s","t","u","v","w","x","y","z">>

LowerChar(c) ==
    IF \E i \in 1..Len(UpperLetters) : UpperLetters[i] = c
    THEN LowerLetters[CHOOSE i \in 1..Len(UpperLetters) : UpperLetters[i] = c]
    ELSE c

toLowerCase(s) == [i \in 1..Len(s) |-> LowerChar(s[i])]

startsWith(s, p) == Len(s) >= Len(p) /\ SubSeq(s, 1, Len(p)) = p

endsWith(s, p) == Len(s) >= Len(p) /\ SubSeq(s, Len(s) - Len(p) + 1, Len(s)) = p

slice(s, n) == SubSeq(s, n + 1, Len(s))

IsSpace(c) == c = " "

RECURSIVE trimStart(_)
trimStart(s) == IF s # <<>> /\ IsSpace(Head(s)) THEN trimStart(Tail(s)) ELSE s

RECURSIVE trimEnd(_)
trimEnd(s) ==
    IF s # <<>> /\ IsSpace(s[Len(s)]) THEN trimEnd(SubSeq(s, 1, Len(s) - 1)) ELSE s

trim(s) == trimEnd(trimStart(s))

\* s.split(sep) for a one-character separator: always at least one piece.
RECURSIVE splitFrom(_, _, _)
splitFrom(s, sep, cur) ==
    IF s = <<>> THEN <<cur>>
    ELSE IF Head(s) = sep THEN <<cur>> \o splitFrom(Tail(s), sep, <<>>)
    ELSE splitFrom(Tail(s), sep, Append(cur, Head(s)))

split(s, sep) == splitFrom(s, sep, <<>>)

includesChar(s, c) == \E i \in 1..Len(s) : s[i] = c

\* array.filter(Boolean) on an array of strings: drops the empty strings.
RECURSIVE filterBoolean(_)
filterBoolean(a) ==
    IF a = <<>> THEN <<>>
    ELSE (IF Head(a) = <<>> THEN <<>> ELSE <<Head(a)>>) \o filterBoolean(Tail(a))

\* [...new Set(array)]: the first occurrence of every value, in order.
RECURSIVE uniqueInOrder(_, _)
uniqueInOrder(a, seen) ==
    IF a = <<>> THEN <<>>
    ELSE IF Head(a) \in seen THEN uniqueInOrder(Tail(a), seen)
    ELSE <<Head(a)>> \o uniqueInOrder(Tail(a), seen \cup {Head(a)})

Range(a) == {a[i] : i \in 1..Len(a)}

MAGIC == <<"m","a","g","i","c">>
MagicLen == 5

(***************************************************************************)
(* getTransitionIdentifiers.  An element is a record with its classList    *)
(* (a sequence of class names) and its data-transition-id attribute (Null  *)
(* when the attribute is absent).                                          *)
(***************************************************************************)
\* Mutant: the prefix test without the case folding.
RECURSIVE classIdentifiersCaseSensitive(_)
classIdentifiersCaseSensitive(classList) ==
    IF classList = <<>> THEN <<>>
    ELSE LET className == Head(classList) IN
         (IF startsWith(className, MAGIC) /\ Len(className) > MagicLen
          THEN <<toLowerCase(slice(className, MagicLen))>>
          ELSE <<>>) \o classIdentifiersCaseSensitive(Tail(classList))

RECURSIVE classIdentifiers(_)
classIdentifiers(classList) ==
    IF classList = <<>> THEN <<>>
    ELSE LET className == Head(classList) IN
         (IF startsWith(toLowerCase(className), MAGIC) /\ Len(className) > MagicLen
          THEN <<toLowerCase(slice(className, MagicLen))>>
          ELSE <<>>) \o classIdentifiers(Tail(classList))

stripMagic(id) == IF startsWith(id, MAGIC) THEN slice(id, MagicLen) ELSE id

dataIdentifiers(dataIds) ==
    IF dataIds = Null \/ dataIds = <<>> THEN <<>>
    ELSE LET parts == split(dataIds, ",")
             lowered == [i \in 1..Len(parts) |-> toLowerCase(trim(parts[i]))]
             stripped == [i \in 1..Len(lowered) |-> stripMagic(lowered[i])]
         IN filterBoolean(stripped)

getTransitionIdentifiers(element) ==
    uniqueInOrder(classIdentifiers(element.classList) \o dataIdentifiers(element.dataId), {})


(***************************************************************************)
(* State.  idElement/idResult and timingArgs/timingResult hold the input   *)
(* and the result of the two pure functions when they are checked on       *)
(* their own; pcPure is "ready" before the call and "done" after it.       *)
(***************************************************************************)
VARIABLES idElement, idResult, timingArgs, timingResult, pcPure

Unset == "unset"

(***************************************************************************)
(* The animation registry.                                                 *)
(*   registeredAnimations  the own properties of                           *)
(*                         _default.registeredAnimations                   *)
(*   registrations         the calls of registerAnimation made so far      *)
(*   lookedUp              the last call of getRegisteredAnimation: its    *)
(*                         name, its result and the number of calls of     *)
(*                         registerAnimation made before it                *)
(***************************************************************************)
VARIABLES registeredAnimations, registrations, lookedUp

registryVars == <<registeredAnimations, registrations, lookedUp>>

\* Line 898: registeredAnimations: {}
RegistryIdle ==
    /\ registeredAnimations = <<>>
    /\ registrations = <<>>
    /\ lookedUp = <<>>

(***************************************************************************)
(* cardArgs/cardResult hold the input and the outcome of a call of         *)
(* magicCard when its resolution is checked on its own.                    *)
(***************************************************************************)
VARIABLES cardArgs, cardResult

cardVars == <<cardArgs, cardResult>>

CardIdle == cardArgs = <<>> /\ cardResult = <<>>

(***************************************************************************)
(* fnArgs/fnResult hold the input and the result of one of the other       *)
(* functions of the engine when it is checked on its own: empty, or the    *)
(* one value.                                                              *)
(***************************************************************************)
VARIABLES fnArgs, fnResult

fnVars == <<fnArgs, fnResult>>

\* The master timeline of one transition on the clock of the tweening service.
VARIABLES clockArgs, clock
clockVars == <<clockArgs, clock>>
ClockIdle == clockArgs = <<>> /\ clock = <<>>

\* A second document of the same page: its state, as State holds that of the
\* first, and the documents whose callbacks wait for the next animation frame
\* of the page, in the order of their requests. They are used where two
\* documents run side by side.
VARIABLES second, frameOrder
secondVars == <<second, frameOrder>>
SecondIdle == second = <<>> /\ frameOrder = <<>>

FnIdle == fnArgs = <<>> /\ fnResult = <<>>

pureVars ==
    <<idElement, idResult, timingArgs, timingResult, pcPure, registryVars, cardVars, fnVars, clockVars,
      secondVars>>

(***************************************************************************)
(* Inputs of getTransitionIdentifiers: class names and data-transition-id  *)
(* values put together from prefixes, bodies and padding.                  *)
(***************************************************************************)
ClassPrefixes == {<<"m","a","g","i","c">>, <<"M","a","g","i","c">>, <<"m","a","g">>}
ClassBodies == {<<>>, <<"F","o","o">>}
ClassNames == {p \o b : p \in ClassPrefixes, b \in ClassBodies}

\* classList holds every class once.
ClassLists ==
    {cl \in UNION {[1..n -> ClassNames] : n \in 0..MaxClasses} :
        \A i, j \in 1..Len(cl) : i # j => cl[i] # cl[j]}

TokenLeads == {<<>>, <<" ">>}
TokenPrefixes == {<<>>, <<"M","a","g","i","c">>}
TokenBodies == {<<>>, <<"F","O","O">>, <<"b","a","r">>}
Tokens ==
    {l \o p \o b : l \in TokenLeads, p \in TokenPrefixes, b \in TokenBodies}
        \cup {<<"b","a","r"," ">>}

RECURSIVE join(_, _)
join(a, sep) ==
    IF a = <<>> THEN <<>>
    ELSE IF Len(a) = 1 THEN a[1]
    ELSE a[1] \o <<sep>> \o join(Tail(a), sep)

TokenLists == UNION {[1..n -> Tokens] : n \in 1..MaxTokens}

\* The attribute is absent, empty, or a comma-separated list.  "tokens" records
\* the pieces the value was written from; the code reads dataId only.
DataIdValues ==
    {[dataId |-> Null, tokens |-> <<>>], [dataId |-> <<>>, tokens |-> <<>>]} \cup
    {[dataId |-> join(ts, ","), tokens |-> ts] : ts \in TokenLists}

IdElements ==
    {[classList |-> cl, dataId |-> d.dataId, tokens |-> d.tokens] :
        cl \in ClassLists, d \in DataIdValues}

IdsReady ==
    /\ idElement \in IdElements
    /\ idResult = Unset
    /\ timingArgs = Unset
    /\ timingResult = Unset
    /\ pcPure = "ready"
    /\ RegistryIdle
    /\ CardIdle
    /\ FnIdle
    /\ ClockIdle
    /\ SecondIdle

CallGetTransitionIdentifiers ==
    /\ pcPure = "ready"
    /\ pcPure' = "done"
    /\ idResult' = getTransitionIdentifiers(idElement)
    /\ UNCHANGED <<idElement, timingArgs, timingResult, registryVars, cardVars, fnVars, clockVars, secondVars>>



(***************************************************************************)
(* calculateTimingValues.  A JavaScript value is a number (fixed point) or *)
(* a string.                                                               *)
(***************************************************************************)
Scale == 1000

Num(n) == [type |-> "number", num |-> n, chars |-> <<>>]
Str(s) == [type |-> "string", num |-> 0, chars |-> s]

Digits == <<"0","1","2","3","4","5","6","7","8","9">>
IsDigit(c) == \E i \in 1..Len(Digits) : Digits[i] = c
DigitVal(c) == (CHOOSE i \in 1..Len(Digits) : Digits[i] = c) - 1

RECURSIVE leadingDigits(_)
leadingDigits(s) ==
    IF s # <<>> /\ IsDigit(Head(s)) THEN <<Head(s)>> \o leadingDigits(Tail(s)) ELSE <<>>

RECURSIVE digitsValue(_)
digitsValue(ds) ==
    IF ds = <<>> THEN 0 ELSE digitsValue(SubSeq(ds, 1, Len(ds) - 1)) * 10 + DigitVal(ds[Len(ds)])

\* The first three decimals of a fraction's digits, as thousandths.
fractionValue(ds) ==
    LET d(i) == IF i <= Len(ds) THEN DigitVal(ds[i]) ELSE 0
    IN d(1) * 100 + d(2) * 10 + d(3)

\* parseFloat of a string that starts with digits: the longest decimal prefix.
parseFloatChars(s) ==
    LET int == leadingDigits(s)
        rest == SubSeq(s, Len(int) + 1, Len(s))
        frac == IF rest # <<>> /\ Head(rest) = "." THEN leadingDigits(Tail(rest)) ELSE <<>>
    IN digitsValue(int) * Scale + fractionValue(frac)

parseFloat(v) == IF v.type = "number" THEN v.num ELSE parseFloatChars(v.chars)

PercentDivisor == 100
MillisDivisor == 1000

\* Mutant: the "s" suffix tested before the "ms" suffix.
calculateValueSecondsFirst(value, totalDuration) ==
    IF value.type = "string" /\ endsWith(value.chars, <<"%">>)
    THEN ((parseFloat(value) \div PercentDivisor) * parseFloat(totalDuration)) \div Scale
    ELSE IF value.type = "string" /\ endsWith(value.chars, <<"s">>)
    THEN parseFloat(value)
    ELSE IF value.type = "string" /\ endsWith(value.chars, <<"m","s">>)
    THEN parseFloat(value) \div MillisDivisor
    ELSE (parseFloat(value) * parseFloat(totalDuration)) \div Scale

calculateValue(value, totalDuration) ==
    IF value.type = "string" /\ endsWith(value.chars, <<"%">>)
    THEN ((parseFloat(value) \div PercentDivisor) * parseFloat(totalDuration)) \div Scale
    ELSE IF value.type = "string" /\ endsWith(value.chars, <<"m","s">>)
    THEN parseFloat(value) \div MillisDivisor
    ELSE IF value.type = "string" /\ endsWith(value.chars, <<"s">>)
    THEN parseFloat(value)
    ELSE (parseFloat(value) * parseFloat(totalDuration)) \div Scale

\* Mutant: the duration resolved against the window left after the delay.
calculateTimingValuesRemainingWindow(delayValue, durationValue, totalDuration) ==
    LET delay == calculateValue(delayValue, totalDuration)
    IN [delay |-> delay,
        duration |-> calculateValue(durationValue, Num(parseFloat(totalDuration) - delay))]

calculateTimingValues(delayValue, durationValue, totalDuration) ==
    [delay |-> calculateValue(delayValue, totalDuration),
     duration |-> calculateValue(durationValue, totalDuration)]

(***************************************************************************)
(* Inputs of calculateTimingValues.  Each is written from a unit and a     *)
(* numeral; "unit" and "value" record what it was written from, the code   *)
(* reads "js" only.                                                        *)
(***************************************************************************)
Numeral(chars, value) == [chars |-> chars, value |-> value]

PercentNumerals ==
    {Numeral(<<"2","5">>, 25000), Numeral(<<"5","0">>, 50000), Numeral(<<"1","0","0">>, 100000)}
MillisNumerals ==
    {Numeral(<<"2","5","0">>, 250000), Numeral(<<"5","0","0">>, 500000),
     Numeral(<<"1","5","0","0">>, 1500000)}
SecondsNumerals ==
    {Numeral(<<"0",".","5">>, 500), Numeral(<<"1">>, 1000), Numeral(<<"2">>, 2000)}
FactorNumerals ==
    {Numeral(<<"0",".","2","5">>, 250), Numeral(<<"0",".","5">>, 500), Numeral(<<"1">>, 1000)}

TimingSpecs ==
    {[js |-> Str(n.chars \o <<"%">>), unit |-> "percent", value |-> n.value] : n \in PercentNumerals}
    \cup {[js |-> Str(n.chars \o <<"m","s">>), unit |-> "ms", value |-> n.value] : n \in MillisNumerals}
    \cup {[js |-> Str(n.chars \o <<"s">>), unit |-> "s", value |-> n.value] : n \in SecondsNumerals}
    \cup {[js |-> Str(n.chars), unit |-> "factor", value |-> n.value] : n \in FactorNumerals}
    \cup {[js |-> Num(n.value), unit |-> "factor", value |-> n.value] : n \in FactorNumerals}
    \cup {[js |-> Num(0), unit |-> "factor", value |-> 0]}

durationTransition == 500

TotalDurations == {durationTransition} \cup {k * Scale : k \in 1..MaxTotal}

TimingReady ==
    /\ timingArgs \in [delay : TimingSpecs, duration : TimingSpecs, total : TotalDurations]
    /\ timingResult = Unset
    /\ idElement = Unset
    /\ idResult = Unset
    /\ pcPure = "ready"
    /\ RegistryIdle
    /\ CardIdle
    /\ FnIdle
    /\ ClockIdle
    /\ SecondIdle

CallCalculateTimingValues ==
    /\ pcPure = "ready"
    /\ pcPure' = "done"
    /\ timingResult' = calculateTimingValues(timingArgs.delay.js, timingArgs.duration.js,
                                             Num(timingArgs.total))
    /\ UNCHANGED <<idElement, idResult, timingArgs, registryVars, cardVars, fnVars, clockVars, secondVars>>



(***************************************************************************)
(* The host document.  Scenes are numbered in scene order and carry the    *)
(* names the host reports; every element of a scene is a div with the      *)
(* attributes the engine reads (Null: attribute absent).                   *)
(***************************************************************************)
SceneNameOf == << <<"A">>, <<"B","1">>, <<"B"," ","2">> >>
Scenes == DOMAIN SceneNameOf
UnknownSceneName == <<"Z">>

sceneNames == SceneNameOf
sceneIndex(name) ==
    IF \E i \in Scenes : SceneNameOf[i] = name
    THEN CHOOSE i \in Scenes : SceneNameOf[i] = name
    ELSE 0

Div(classList, dataId, anim, animFrom, animTo) ==
    [classList |-> classList, dataId |-> dataId,
     anim |-> anim, animFrom |-> animFrom, animTo |-> animTo]

ClsMagicFoo == <<"m","a","g","i","c","F","o","o">>
ClsCapitalMagicFoo == <<"M","a","g","i","c","F","o","o">>
ClsMagicBar == <<"m","a","g","i","c","B","a","r">>
ClsCapitalMagicBar == <<"M","a","g","i","c","B","a","r">>
FadeOut == <<"o","p","a","c","i","t","y",":","0">>
ScaleNoValue == <<"s","c","a","l","e">>
ScaleHalf == <<"s","c","a","l","e",":","5","0","%">>
ScaleDouble == <<"s","c","a","l","e",":","2">>

DivMagicFoo == Div(<<ClsMagicFoo>>, Null, Null, Null, Null)
DivCapitalMagicFoo == Div(<<ClsCapitalMagicFoo>>, Null, Null, Null, Null)
DivIdFooBar == Div(<<>>, <<"f","o","o",","," ","b","a","r">>, Null, Null, Null)
DivMagicBar == Div(<<ClsMagicBar>>, Null, Null, Null, Null)
DivMagicBarFade == Div(<<ClsMagicBar>>, Null, FadeOut, Null, Null)
DivFadeOnly == Div(<<>>, Null, FadeOut, Null, Null)
DivScaleOnly == Div(<<>>, Null, ScaleNoValue, Null, Null)
DivMagicBarFromTo == Div(<<ClsMagicBar>>, Null, FadeOut, ScaleHalf, ScaleDouble)
DivCapitalMagicBarFade == Div(<<ClsCapitalMagicBar>>, Null, FadeOut, Null, Null)

\* A div with a data-transition-order attribute, inside a wrapper of class
\* HYPE_element_container or not.
Ordered(div, order, contained) ==
    [k \in DOMAIN div \cup {"order", "contained"} |->
        IF k = "order" THEN order ELSE IF k = "contained" THEN contained ELSE div[k]]

\* element.getAttribute(name)
getAttribute(el, name) ==
    CASE name = "data-transition-id" -> el.dataId
      [] name = "data-transition-animation" -> el.anim
      [] name = "data-transition-animation-from" -> el.animFrom
      [] name = "data-transition-animation-to" -> el.animTo
      [] name = "data-transition-order" -> IF "order" \in DOMAIN el THEN el.order ELSE Null

\* a || b on attribute values: null and the empty string are falsy.
OrElse(a, b) == IF a = Null \/ a = <<>> THEN b ELSE a

containsSub(s, p) == \E i \in 1..(Len(s) - Len(p) + 1) : SubSeq(s, i, i + Len(p) - 1) = p

\* div[class*="magic"], div[data-transition-id]
matchesMagicSelector(el) ==
    \/ \E i \in 1..Len(el.classList) : containsSub(el.classList[i], MAGIC)
    \/ el.dataId # Null

\* [data-transition-animation], [data-transition-animation-from], [data-transition-animation-to]
matchesAnimationSelector(el) ==
    el.anim # Null \/ el.animFrom # Null \/ el.animTo # Null

(***************************************************************************)
(* parseSimpleAnimation.  The result is the animation object (a function   *)
(* from property name to value) or the TypeError raised on the way.        *)
(***************************************************************************)
Undefined == [type |-> "undefined", num |-> 0, chars |-> <<>>]

percentageProps ==
    {<<"s","c","a","l","e">>, <<"s","c","a","l","e","X">>,
     <<"s","c","a","l","e","Y">>, <<"s","c","a","l","e","Z">>}

SetProp(animation, key, value) ==
    [k \in DOMAIN animation \cup {key} |-> IF k = key THEN value ELSE animation[k]]

\* One round of properties.forEach: "threw" once value.endsWith is called on undefined.
RECURSIVE parseProperties(_, _)
parseProperties(properties, acc) ==
    IF properties = <<>> \/ acc.threw THEN acc
    ELSE LET parts == split(trim(Head(properties)), ":")
             key == trim(parts[1])
             value == IF Len(parts) >= 2 THEN Str(trim(parts[2])) ELSE Undefined
         IN IF key \in percentageProps /\ value = Undefined
            THEN [acc EXCEPT !.threw = TRUE]
            ELSE IF key \in percentageProps /\ endsWith(value.chars, <<"%">>)
            THEN parseProperties(Tail(properties),
                     [acc EXCEPT !.props = SetProp(@, key, Num(parseFloat(value) \div PercentDivisor))])
            ELSE parseProperties(Tail(properties),
                     [acc EXCEPT !.props = SetProp(@, key, value)])

NoProps == [k \in {} |-> Undefined]

\* dataString is non-empty here: the callers test it first.
parseSimpleAnimation(dataString) ==
    parseProperties(filterBoolean(split(dataString, ";")), [threw |-> FALSE, props |-> NoProps])

(***************************************************************************)
(* registerAnimation and getRegisteredAnimation.  The registry is a plain  *)
(* object: reading a key it does not own reads the member of that name of  *)
(* Object.prototype, if there is one.                                      *)
(***************************************************************************)
AnimationString(chars) == [type |-> "string", chars |-> chars, props |-> NoProps]
AnimationObject(props) == [type |-> "object", chars |-> <<>>, props |-> props]
JsNull == [type |-> "null", chars |-> <<>>, props |-> NoProps]
JsUndefined == [type |-> "undefined", chars |-> <<>>, props |-> NoProps]
ObjectFunction == [type |-> "function", chars |-> <<"O","b","j","e","c","t">>, props |-> NoProps]

\* The members of Object.prototype whose name is its own lower-case form,
\* __proto__ aside.
ObjectPrototype == [k \in {<<"c","o","n","s","t","r","u","c","t","o","r">>} |-> ObjectFunction]

\* object[key]
getProperty(object, key) ==
    IF key \in DOMAIN object THEN object[key]
    ELSE IF key \in DOMAIN ObjectPrototype THEN ObjectPrototype[key]
    ELSE JsUndefined

\* Lines 1108-1126 as registerAnimation calls them: null for the empty string.
parsedAnimation(dataString) ==
    IF dataString = <<>> THEN [threw |-> FALSE, value |-> JsNull]
    ELSE [threw |-> parseSimpleAnimation(dataString).threw,
          value |-> AnimationObject(parseSimpleAnimation(dataString).props)]

\* Lines 1134-1139: the registry after the call, or the TypeError of the parser.
registerAnimation(registry, name, animation) ==
    LET parsed == IF animation.type = "string" THEN parsedAnimation(animation.chars)
                  ELSE [threw |-> FALSE, value |-> animation]
    IN IF parsed.threw THEN [threw |-> TRUE, registry |-> registry]
       ELSE [threw |-> FALSE, registry |-> SetProp(registry, toLowerCase(name), parsed.value)]

\* Lines 1146-1148: value || null.
getRegisteredAnimation(registry, name) ==
    LET value == getProperty(registry, toLowerCase(name))
    IN IF value.type \in {"undefined", "null"} THEN JsNull ELSE value

(***************************************************************************)
(* State of the engine, the host document and the tweening service.        *)
(*   doc           the scenes' elements (fixed once the document is loaded)*)
(*   defaultKeys   the keys present in _default                            *)
(*   current       the host's current scene                                *)
(*   lock          hypeDocElm carries the class magicTransition            *)
(*   marks         the classes currentScene/targetScene/fadeComplete of    *)
(*                 every scene element                                     *)
(*   sceneOpacity  a scene's --scene-opacity is 1                          *)
(*   hostOpaque    a scene's own (host-set) opacity is 1                   *)
(*   ref           documentState.masterTimeline (0: no reference)          *)
(*   tls           every master timeline created, in creation order        *)
(*   raf           the callbacks waiting for the next animation frame      *)
(*   style         the tracked inline style properties of every element    *)
(*   zIndex        the inline z-index of every element and of its wrapper  *)
(*                 container                                               *)
(*   pristine      _pristineElementCache: element -> properties            *)
(*   restoreCache  _restoreElementCache: element -> properties             *)
(*   log           the lifecycle callbacks and behaviours fired            *)
(*   thrown        a call of a public trigger function has thrown          *)
(*   guardSawEnded the interruption guard has read a reference to a        *)
(*                 timeline that was no longer running                     *)
(*   nReq          the number of requests made so far                      *)
(***************************************************************************)
VARIABLES doc, defaultKeys, current, lock, marks, sceneOpacity, hostOpaque, ref,
          tls, raf, style, zIndex, pristine, restoreCache, log, thrown, guardSawEnded, nReq

engineVars == <<doc, defaultKeys, current, lock, marks, sceneOpacity, hostOpaque, ref,
                tls, raf, style, zIndex, pristine, restoreCache, log, thrown, guardSawEnded,
                nReq>>

vars == <<pureVars, engineVars>>

AllDefaultKeys ==
    {"easingMap", "defaultProperties", "crossFadeFactor", "durationTransition",
     "durationAnimation", "registeredAnimations", "hypePropertyMap", "skipProperties",
     "decomposeTransform", "highlightSceneMagic"}

\* The mutable part of the state as one value; exc: an exception is propagating.
State ==
    [current |-> current, lock |-> lock, marks |-> marks, sceneOpacity |-> sceneOpacity,
     hostOpaque |-> hostOpaque, ref |-> ref, tls |-> tls, raf |-> raf,
     style |-> style, zIndex |-> zIndex, pristine |-> pristine, restoreCache |-> restoreCache, log |-> log,
     thrown |-> thrown, guardSawEnded |-> guardSawEnded, nReq |-> nReq, exc |-> FALSE]

Becomes(s) ==
    \E after \in {s} :
        /\ current' = after.current
        /\ lock' = after.lock
        /\ marks' = after.marks
        /\ sceneOpacity' = after.sceneOpacity
        /\ hostOpaque' = after.hostOpaque
        /\ ref' = after.ref
        /\ tls' = after.tls
        /\ raf' = after.raf
        /\ style' = after.style
        /\ zIndex' = after.zIndex
        /\ pristine' = after.pristine
        /\ restoreCache' = after.restoreCache
        /\ log' = after.log
        /\ thrown' = after.thrown
        /\ guardSawEnded' = after.guardSawEnded
        /\ nReq' = after.nReq

Throw(s) == [s EXCEPT !.exc = TRUE]
Caught(s) == [s EXCEPT !.exc = FALSE]
Logged(s, event, t) ==
    [s EXCEPT !.log = Append(@, <<event, t>>),
              !.tls = IF t \in DOMAIN @ THEN [@ EXCEPT ![t].events = Append(@, <<event>>)]
                      ELSE @]

\* What the log holds of timeline t, in order.
eventsOf(entries, t) ==
    LET own == SelectSeq(entries, LAMBDA e : e[2] = t)
    IN [i \in 1..Len(own) |-> IF Len(own[i]) = 3 THEN <<own[i][1], own[i][3]>>
                              ELSE <<own[i][1]>>] \o <<>>

\* name.replace(/\s+/g, '')
removeWhitespace(name) == SelectSeq(name, LAMBDA c : ~IsSpace(c))

\* hypeDocument.triggerCustomBehaviorNamed(prefix + name) during the start of
\* timeline t.
triggerCustomBehaviorNamed(s, prefix, name, t) ==
    [s EXCEPT !.log = Append(@, <<prefix, t, name>>)]

\* Mutant: the behaviours are named after the scene names as they are.
sceneBehavioursNamesKept(s, cur, tgt, t) ==
    triggerCustomBehaviorNamed(
        triggerCustomBehaviorNamed(
            triggerCustomBehaviorNamed(s, "magicTransitionFrom_", SceneNameOf[cur], t),
            "magicTransitionTo_", SceneNameOf[tgt], t),
        "magicTransition_", SceneNameOf[cur] \o <<"_","t","o","_">> \o SceneNameOf[tgt], t)

\* Lines 1332-1334: the behaviours that carry the scene names.
sceneBehaviours(s, cur, tgt, t) ==
    triggerCustomBehaviorNamed(
        triggerCustomBehaviorNamed(
            triggerCustomBehaviorNamed(s, "magicTransitionFrom_",
                                       removeWhitespace(SceneNameOf[cur]), t),
            "magicTransitionTo_", removeWhitespace(SceneNameOf[tgt]), t),
        "magicTransition_",
        removeWhitespace(SceneNameOf[cur]) \o <<"_","t","o","_">>
            \o removeWhitespace(SceneNameOf[tgt]), t)

\* A render of master timeline t begins: onStart on the first one.
onStart(s, t) ==
    IF s.tls[t].started THEN s
    ELSE [s EXCEPT !.tls[t].started = TRUE,
                   !.tls[t].events = Append(@, <<"onTransitionStart">>)]

\* A render of master timeline t ends: onUpdate; calls that follow each other
\* are recorded once.
onUpdate(s, t) ==
    IF s.tls[t].events[Len(s.tls[t].events)] = <<"onTransitionProgress">> THEN s
    ELSE [s EXCEPT !.tls[t].events = Append(@, <<"onTransitionProgress">>)]

ElemOf(e) == doc.elems[e[1]][e[2]]
ElementsOf(scene) == {<<scene, i>> : i \in 1..Len(doc.elems[scene])}

\* The tracked properties of an element: its opacity and its transform, the
\* transform by its rotation (degrees) and its scale; numbers are fixed point.
StyleOf(opacity, rotate, scale) ==
    [opacity |-> opacity, transform |-> [rotate |-> rotate, scale |-> scale]]

\* defaultProperties: opacity 1, transform ''
PlainStyle == StyleOf(Scale, 0, Scale)

\* The properties of an element whose tween was stopped between its ends.
Blend == StyleOf(-1, -1, -1)
between(start, end) == IF start = end THEN start ELSE Blend

\* WeakMap: new WeakMap(), set, delete
NoEntries == [e \in {} |-> PlainStyle]

\* A function and a sequence as values computed once, and the element of a
\* singleton: only({f(v) : v \in {x}}) is f(x) with x computed once.
fcn(f) == f @@ NoEntries
seq(f) == f \o <<>>
only(S) == CHOOSE r \in S : TRUE

mapSet(map, key, value) ==
    fcn([k \in DOMAIN map \cup {key} |-> IF k = key THEN value ELSE map[k]])
mapDelete(map, key) == fcn([k \in DOMAIN map \ {key} |-> map[k]])

\* The live properties of the element, read from its inline style.
getCurrentMagicProperties(s, element) == s.style[element]

\* The rotation of a transform and the transform without it.
extractAndStripRotations(transform) ==
    [rotate |-> transform.rotate, transform |-> [transform EXCEPT !.rotate = 0]]

\* Lines 1494-1528: the rotation leaves the transform of both property sets
\* and is tweened by its delta, or not at all when the delta is 0.
decomposeTransform(fromProperties, toProperties) ==
    LET from == extractAndStripRotations(fromProperties.transform)
        to == extractAndStripRotations(toProperties.transform)
        delta == to.rotate - from.rotate
    IN IF delta # 0
       THEN [from |-> [opacity |-> fromProperties.opacity, transform |-> from.transform,
                       rotate |-> [relative |-> FALSE, deg |-> from.rotate]],
             to |-> [opacity |-> toProperties.opacity, transform |-> to.transform,
                     rotate |-> [relative |-> TRUE, deg |-> delta]]]
       ELSE [from |-> [opacity |-> fromProperties.opacity, transform |-> from.transform],
             to |-> [opacity |-> toProperties.opacity, transform |-> to.transform]]

\* The tweening service: the properties of an element once a property set
\* (props) is rendered on it; a relative rotation counts from startRotate.
rendered(props, startRotate) ==
    StyleOf(props.opacity,
            IF "rotate" \in DOMAIN props
            THEN IF props.rotate.relative THEN startRotate + props.rotate.deg
                 ELSE props.rotate.deg
            ELSE props.transform.rotate,
            props.transform.scale)

NoElement == <<0, 0>>

\* The inline z-index of a node: none, or the value set.
NoZIndex == [set |-> FALSE, z |-> 0]
NoNode == <<0, 0, "none">>

\* The wrapper of the element when it has one of class HYPE_element_container,
\* else the element.
findZIndexElement(element) ==
    <<element[1], element[2],
      IF "contained" \in DOMAIN ElemOf(element) /\ ElemOf(element).contained
      THEN "container" ELSE "self">>

Front == <<"f","r","o","n","t">>
Back == <<"b","a","c","k">>
Target == <<"t","a","r","g","e","t">>

\* One above (below) the z-index of every child of the node's parent for
\* 'front' ('back'), else the value given; no z-index counts as 0.
determineZIndex(s, node, order) ==
    LET zIndices == {s.zIndex[findZIndexElement(e)].z : e \in ElementsOf(node[1])}
    IN IF order = Front THEN (CHOOSE z \in zIndices : \A y \in zIndices : z >= y) + 1
       ELSE IF order = Back THEN (CHOOSE z \in zIndices : \A y \in zIndices : z <= y) - 1
       ELSE digitsValue(leadingDigits(order))

\* getAttributeValue: the attribute of the source element, that of the target
\* element when the source says 'target', else the default.
getAttributeValue(sourceElement, targetElement, attr, defaultValue) ==
    IF getAttribute(ElemOf(sourceElement), attr) = Target
    THEN OrElse(getAttribute(ElemOf(targetElement), attr), defaultValue)
    ELSE OrElse(getAttribute(ElemOf(sourceElement), attr), defaultValue)

\* The tweening service: a nested timeline none of whose tweens is pending any
\* more has completed, and its onComplete has cleared the z-index it had set.
inSub(tw, sub) ==
    \/ tw.kind = "pairTarget" /\ tw.el = sub.target /\ tw.partner = sub.source
    \/ tw.kind = "pairSource" /\ tw.el = sub.source /\ tw.partner = sub.target
subEnded(tl, k) ==
    \A i \in DOMAIN tl.tweens : inSub(tl.tweens[i], tl.subs[k]) => tl.tweens[i].st # "active"
completes(tl, k) == ~tl.subs[k].done /\ subEnded(tl, k)

\* Mutant: onComplete of the nested timeline leaves the z-index in place.
settledOrderKept(s) ==
    [s EXCEPT !.tls = seq([t \in DOMAIN s.tls |->
                          [s.tls[t] EXCEPT !.subs =
                              seq([k \in DOMAIN s.tls[t].subs |->
                                  [s.tls[t].subs[k] EXCEPT !.done = @ \/ subEnded(s.tls[t], k)]])]])]

\* Lines 1486-1492: onComplete of every nested timeline that has ended.
settled(s) ==
    [s EXCEPT !.tls = seq([t \in DOMAIN s.tls |->
                          [s.tls[t] EXCEPT !.subs =
                              seq([k \in DOMAIN s.tls[t].subs |->
                                  [s.tls[t].subs[k] EXCEPT !.done = @ \/ subEnded(s.tls[t], k)]])]]),
              !.zIndex = fcn([n \in DOMAIN s.zIndex |->
                             IF \E t \in DOMAIN s.tls : \E k \in DOMAIN s.tls[t].subs :
                                    s.tls[t].subs[k].zel = n /\ completes(s.tls[t], k)
                             THEN NoZIndex ELSE s.zIndex[n]])]

settle(s) == only({settled(v) : v \in {s}})

\* The tween of an element that has not ended, the latest one when several
\* timelines hold one.
ActiveTweens(s, el) ==
    {p \in UNION {{<<t, i>> : i \in DOMAIN s.tls[t].tweens} : t \in DOMAIN s.tls} :
        /\ s.tls[p[1]].tweens[p[2]].el = el
        /\ s.tls[p[1]].tweens[p[2]].st = "active"}
Later(p, q) == p[1] > q[1] \/ (p[1] = q[1] /\ p[2] >= q[2])
stoppedStyle(s, el) ==
    LET ps == ActiveTweens(s, el)
        p == CHOOSE x \in ps : \A y \in ps : Later(x, y)
    IN IF ps = {} THEN s.style[el]
       ELSE between(s.tls[p[1]].tweens[p[2]].start, s.tls[p[1]].tweens[p[2]].end)

\* gsap.killTweensOf(targets): every tween of these targets that has not ended;
\* the element stays where the tween was.
killTweensOf(s, targets) ==
    LET kill(tw) == IF tw.el \in targets /\ tw.st = "active"
                    THEN [tw EXCEPT !.st = "killed"] ELSE tw
        killIn(tl) == [tl EXCEPT !.tweens = seq([i \in DOMAIN tl.tweens |-> kill(tl.tweens[i])])]
    IN settle([s EXCEPT !.tls = seq([t \in DOMAIN s.tls |-> killIn(s.tls[t])]),
                        !.style = fcn([e \in DOMAIN s.style |->
                                          IF e \in targets THEN stoppedStyle(s, e)
                                          ELSE s.style[e]])])

\* timeline.fromTo / from / to: a tween of a timeline from the properties
\* "start", rendered at once, to the properties "end".
addTween(s, t, el, kind, partner, start, end) ==
    [s EXCEPT !.tls[t].tweens =
                  Append(@, [el |-> el, kind |-> kind, partner |-> partner, st |-> "active",
                             start |-> start, end |-> end]),
              !.style[el] = start]

prepareForRestoration(s, t, element) ==
    LET s1 == IF element \in DOMAIN s.pristine /\ element \notin DOMAIN s.restoreCache
              THEN [s EXCEPT !.restoreCache = mapSet(@, element, s.pristine[element])]
              ELSE s
    IN [s1 EXCEPT !.tls[t].restore = @ \cup {element},
                  !.tls[t].entries = IF element \in DOMAIN s.pristine
                                     THEN mapSet(@, element, s.pristine[element]) ELSE @]

\* getEase reads easingMap[...]; getCurrentMagicProperties reads
\* skipProperties.includes once per default property.
getEaseThrows == "easingMap" \notin defaultKeys
getCurrentMagicPropertiesThrows ==
    "defaultProperties" \in defaultKeys /\ "skipProperties" \notin defaultKeys
getRegisteredAnimationThrows == "registeredAnimations" \notin defaultKeys

\* The animation data of a directive: a registered animation when the string has
\* no colon and is registered, else the parsed string.
animationDataOf(animation) ==
    IF ~includesChar(animation, ":") /\ getRegisteredAnimationThrows
    THEN [threw |-> TRUE, props |-> NoProps]
    ELSE parseSimpleAnimation(animation)

(***************************************************************************)
(* showSceneNamedMagic, the part that builds the master timeline t for a   *)
(* transition from scene cur to scene tgt.                                 *)
(***************************************************************************)

\* querySelectorAll('div[class*="magic"], div[data-transition-id]') in document order
magicElms(scene) ==
    SelectSeq([i \in 1..Len(doc.elems[scene]) |-> <<scene, i>>],
              LAMBDA e : matchesMagicSelector(ElemOf(e)))

\* querySelectorAll of the animation attributes, then the filter on no identifiers
animationElms(scene) ==
    SelectSeq([i \in 1..Len(doc.elems[scene]) |-> <<scene, i>>],
              LAMBDA e : /\ matchesAnimationSelector(ElemOf(e))
                         /\ getTransitionIdentifiers(ElemOf(e)) = <<>>)

idsIntersect(a, b) == \E x \in Range(a) : x \in Range(b)

\* Array.from(sourceMagicElms).find(...): the first element that shares an identifier
findSource(sourceElms, targetIds) ==
    LET hits == {j \in 1..Len(sourceElms) :
                    idsIntersect(getTransitionIdentifiers(ElemOf(sourceElms[j])), targetIds)}
    IN IF hits = {} THEN NoElement
       ELSE sourceElms[CHOOSE j \in hits : \A k \in hits : j <= k]

\* The properties of an element with the tracked properties of an animation
\* object rendered on it.
animatedStyle(here, props) ==
    StyleOf(IF <<"o","p","a","c","i","t","y">> \in DOMAIN props
            THEN parseFloat(props[<<"o","p","a","c","i","t","y">>]) ELSE here.opacity,
            here.transform.rotate,
            IF <<"s","c","a","l","e">> \in DOMAIN props
            THEN parseFloat(props[<<"s","c","a","l","e">>]) ELSE here.transform.scale)

\* The tween of a directive: parse it, read the easing, add the tween: from()
\* starts at the animation's values and ends where the element is, to() the
\* other way round.
directiveTween(s, t, element, animation, kind) ==
    LET data == animationDataOf(animation)
        here == s.style[element]
    IN IF data.threw \/ getEaseThrows THEN Throw(s)
       ELSE IF kind = "from"
       THEN addTween(s, t, element, kind, NoElement, animatedStyle(here, data.props), here)
       ELSE addTween(s, t, element, kind, NoElement, here, animatedStyle(here, data.props))

\* Mutant: the "to" properties are the entry of the pristine cache itself.
assignToEntry(s, targetElement, toProperties) ==
    IF targetElement \in DOMAIN s.pristine
    THEN [s EXCEPT !.pristine[targetElement] = toProperties]
    ELSE s

\* Line 1454: the "to" properties are a shallow copy ({...}) of the pristine
\* entry of the target or, without one, its live properties: what lines
\* 1500-1526 assign to the object reaches no cache.
assignToProperties(s, targetElement, toProperties) == s

\* Lines 1531-1541: both elements are tweened from the live properties of the
\* source to the "to" properties.
fromToTweens(s, t, sourceElement, targetElement, sets) ==
    addTween(addTween(s, t, targetElement, "pairTarget", sourceElement,
                      rendered(sets.from, 0),
                      rendered(sets.to, rendered(sets.from, 0).transform.rotate)),
             t, sourceElement, "pairSource", targetElement,
             rendered(sets.from, 0),
             rendered(sets.to, rendered(sets.from, 0).transform.rotate))

\* Lines 1449-1528: the property sets of a pair.
pairProperties(s, sourceElement, targetElement) ==
    LET fromProperties == getCurrentMagicProperties(s, sourceElement)
        toProperties == IF targetElement \in DOMAIN s.pristine THEN s.pristine[targetElement]
                        ELSE getCurrentMagicProperties(s, targetElement)
    IN IF "decomposeTransform" \in defaultKeys
       THEN decomposeTransform(fromProperties, toProperties)
       ELSE [from |-> fromProperties, to |-> toProperties]

\* Lines 1468-1492: the z-index of the stacking order, and the nested
\* timeline of the pair.
newElementTimeline(s, t, sourceElement, targetElement, transitionOrder) ==
    IF transitionOrder # Null
    THEN [s EXCEPT !.zIndex[findZIndexElement(targetElement)] =
                       [set |-> TRUE,
                        z |-> determineZIndex(s, findZIndexElement(targetElement), transitionOrder)],
                   !.tls[t].subs = Append(@, [target |-> targetElement, source |-> sourceElement,
                                              zel |-> findZIndexElement(targetElement),
                                              done |-> FALSE])]
    ELSE [s EXCEPT !.tls[t].subs = Append(@, [target |-> targetElement, source |-> sourceElement,
                                              zel |-> NoNode, done |-> FALSE])]

\* A matched pair: the body of "if (sourceElement)".
elementTimeline(s, t, sourceElement, targetElement) ==
    IF getCurrentMagicPropertiesThrows THEN Throw(s)
    ELSE IF getEaseThrows
    THEN Throw(newElementTimeline(s, t, sourceElement, targetElement,
                   getAttributeValue(sourceElement, targetElement, "data-transition-order", Null)))
    ELSE fromToTweens(
             assignToProperties(
                 newElementTimeline(s, t, sourceElement, targetElement,
                     getAttributeValue(sourceElement, targetElement, "data-transition-order", Null)),
                 targetElement, pairProperties(s, sourceElement, targetElement).to),
             t, sourceElement, targetElement,
             pairProperties(s, sourceElement, targetElement))

pairTweens(s, t, sourceElement, targetElement) ==
    only({elementTimeline(s1, t, sourceElement, targetElement) :
          s1 \in {prepareForRestoration(killTweensOf(s, {targetElement, sourceElement}),
                                        t, sourceElement)}})

\* A target element with identifiers and no source element.
targetOnly(s, t, targetElement) ==
    LET animation == OrElse(getAttribute(ElemOf(targetElement), "data-transition-animation-from"),
                            getAttribute(ElemOf(targetElement), "data-transition-animation"))
    IN IF animation = Null THEN s
       ELSE only({directiveTween(s1, t, targetElement, animation, "from") :
                  s1 \in {killTweensOf(s, {targetElement})}})

RECURSIVE targetLoop(_, _, _, _)
targetLoop(s, t, sourceElms, targetElms) ==
    IF targetElms = <<>> \/ s.exc THEN s
    ELSE LET targetElement == Head(targetElms)
             targetIds == getTransitionIdentifiers(ElemOf(targetElement))
             sourceElement == findSource(sourceElms, targetIds)
             s1 == IF targetIds = <<>> THEN s
                   ELSE IF sourceElement # NoElement
                   THEN pairTweens(s, t, sourceElement, targetElement)
                   ELSE targetOnly(s, t, targetElement)
         IN only({targetLoop(s2, t, sourceElms, Tail(targetElms)) : s2 \in {s1}})

\* A source element with identifiers that no target element shares.
sourceOnly(s, t, sourceElement) ==
    LET s1 == killTweensOf(prepareForRestoration(s, t, sourceElement), {sourceElement})
        animation == OrElse(getAttribute(ElemOf(sourceElement), "data-transition-animation-to"),
                            getAttribute(ElemOf(sourceElement), "data-transition-animation"))
    IN IF animation = Null THEN s1
       ELSE directiveTween(s1, t, sourceElement, animation, "to")

RECURSIVE sourceLoop(_, _, _, _)
sourceLoop(s, t, sourceElms, targetElms) ==
    IF sourceElms = <<>> \/ s.exc THEN s
    ELSE LET sourceElement == Head(sourceElms)
             sourceIds == getTransitionIdentifiers(ElemOf(sourceElement))
             hasMatch == \E j \in 1..Len(targetElms) :
                            idsIntersect(getTransitionIdentifiers(ElemOf(targetElms[j])), sourceIds)
             s1 == IF sourceIds # <<>> /\ ~hasMatch THEN sourceOnly(s, t, sourceElement) ELSE s
         IN only({sourceLoop(s2, t, Tail(sourceElms), targetElms) : s2 \in {s1}})

handleNonMagicAnimation(s, t, element, isTarget) ==
    LET animation ==
            OrElse(getAttribute(ElemOf(element),
                       IF isTarget THEN "data-transition-animation-from"
                       ELSE "data-transition-animation-to"),
                   getAttribute(ElemOf(element), "data-transition-animation"))
    IN IF animation = Null THEN s
       ELSE only({directiveTween(s1, t, element, animation,
                                 IF isTarget THEN "from" ELSE "to") :
                  s1 \in {killTweensOf(prepareForRestoration(s, t, element), {element})}})

RECURSIVE nonMagicLoop(_, _, _, _)
nonMagicLoop(s, t, elms, isTarget) ==
    IF elms = <<>> \/ s.exc THEN s
    ELSE only({nonMagicLoop(s1, t, Tail(elms), isTarget) :
               s1 \in {handleNonMagicAnimation(s, t, Head(elms), isTarget)}})

buildTimeline(s, t, cur, tgt) ==
    only({nonMagicLoop(s3, t, animationElms(cur), FALSE) :
          s3 \in {only({nonMagicLoop(s2, t, animationElms(tgt), TRUE) :
                        s2 \in {only({sourceLoop(s1, t, magicElms(cur), magicElms(tgt)) :
                                      s1 \in {targetLoop(s, t, magicElms(cur),
                                                         magicElms(tgt))}})}})}})

(***************************************************************************)
(* The transition protocol: guard, start, completion, cleanup.             *)
(***************************************************************************)
MaxRequests == 3

NoHook == [at |-> "none", target |-> <<>>]

\* A request: its number, the target scene name, and what the caller's end
\* callback (options.onTransitionEnd) or magicTransitionEnd behaviour does:
\* nothing, or a call of showSceneNamedMagic(hook.target).  "after" is the
\* timeline the request has interrupted (0: none), kept by the deferred retry.
Request(id, target, hook) == [id |-> id, target |-> target, hook |-> hook, after |-> 0]

\* getComputedStyle(sceneElm).opacity == 1 under the rules of addMagicTransitionCSS
opacityIsOne(s, scene) ==
    IF s.lock /\ "targetScene" \in s.marks[scene]
    THEN "fadeComplete" \in s.marks[scene] \/ s.sceneOpacity[scene]
    ELSE s.hostOpaque[scene]

\* onComplete of the crossfade tween
crossfadeComplete(s, t) ==
    LET cur == s.tls[t].cur
        tgt == s.tls[t].tgt
        s1 == [s EXCEPT !.tls[t].fade = TRUE,
                        !.sceneOpacity[tgt] = TRUE,
                        !.marks[cur] = @ \cup {"fadeComplete"},
                        !.marks[tgt] = @ \cup {"fadeComplete"}]
    IN killTweensOf(s1, ElementsOf(cur))

\* The children of the timeline rendered at their end, the crossfade first.
renderAtEnd(s, t) ==
    LET end(tw) == IF tw.st = "active" THEN [tw EXCEPT !.st = "done"] ELSE tw
        ended(s1, e) == {i \in DOMAIN s1.tls[t].tweens :
                            s1.tls[t].tweens[i].el = e /\ s1.tls[t].tweens[i].st = "active"}
        remaining(s1) ==
            [s1 EXCEPT !.tls[t].tweens = seq([i \in DOMAIN @ |-> end(@[i])]),
                       !.tls[t].status = "complete",
                       !.style = fcn([e \in DOMAIN @ |->
                                         IF ended(s1, e) = {} THEN @[e]
                                         ELSE s1.tls[t].tweens[CHOOSE i \in ended(s1, e) :
                                                  \A j \in ended(s1, e) : i >= j].end])]
    IN settle(only({remaining(s1) :
                    s1 \in {IF s.tls[t].fade THEN s ELSE crossfadeComplete(s, t)}}))

\* HypeScenePrepareForDisplay
scenePrepareForDisplay(s, scene) ==
    LET transitionElements ==
            {e \in ElementsOf(scene) :
                matchesMagicSelector(ElemOf(e)) \/ matchesAnimationSelector(ElemOf(e))}
    IN [s EXCEPT !.pristine =
           fcn([e \in DOMAIN @ \cup transitionElements |->
                   IF e \in DOMAIN @ THEN @[e] ELSE getCurrentMagicProperties(s, e)])]

\* hypeDocument.showSceneNamed(name, kSceneTransitionCrossfade, duration)
hostShowSceneNamed(s, scene) ==
    scenePrepareForDisplay(
        [s EXCEPT !.current = scene, !.hostOpaque[scene] = FALSE], scene)

newTimeline(r, cur, tgt) ==
    [req |-> r.id, after |-> r.after, cur |-> cur, tgt |-> tgt, status |-> "running",
     started |-> FALSE, events |-> <<>>, fade |-> FALSE, forced |-> FALSE, cleaned |-> FALSE,
     tweens |-> <<>>, subs |-> <<>>,
     restore |-> {}, entries |-> NoEntries, restored |-> {}, applied |-> NoEntries,
     batch |-> FALSE, hook |-> r.hook]

\* Lines 1692-1695: the reference is stored when the build has not thrown.
storeMasterTimeline(s, t) ==
    IF s.exc THEN [s EXCEPT !.thrown = TRUE] ELSE [s EXCEPT !.ref = t]

\* Lines 1324-1696: both scene elements exist and carry their role markers.
animate(s, r, cur, tgt, t) ==
    LET created(s1) ==
            [s1 EXCEPT !.tls = Append(@, [newTimeline(r, cur, tgt) EXCEPT
                                             !.events = eventsOf(s1.log, t)]),
                       !.sceneOpacity[tgt] = FALSE]
        swapped ==
            Logged(hostShowSceneNamed(
                sceneBehaviours(
                    Logged(Logged(s, "onTransitionPrepare", t), "magicTransitionStart", t),
                    cur, tgt, t), tgt), "showSceneNamed", t)
    IN only({storeMasterTimeline(s3, t) :
             s3 \in {only({buildTimeline(s2, t, cur, tgt) :
                           s2 \in {only({created(s1) : s1 \in {swapped}})}})}})

\* Lines 1320-1321: classList of a scene element that was not found throws.
markScenes(s, r, cur, tgt, t) ==
    IF ~doc.present[cur] THEN [Throw(s) EXCEPT !.thrown = TRUE]
    ELSE IF ~doc.present[tgt]
    THEN [Throw(s) EXCEPT !.thrown = TRUE, !.marks[cur] = @ \cup {"currentScene"}]
    ELSE animate([s EXCEPT !.marks[cur] = @ \cup {"currentScene"},
                           !.marks[tgt] = @ \cup {"targetScene"}],
                 r, cur, tgt, t)

\* Lines 1280-1696: the request has passed the guard and the validation.
startTransition(s, r, tgt) ==
    markScenes([s EXCEPT !.restoreCache = NoEntries, !.lock = TRUE],
               r, s.current, tgt, Len(s.tls) + 1)

NoRequest == Request(0, <<>>, NoHook)

RECURSIVE showSceneNamedMagic(_, _)

\* What the end callback or behaviour of timeline t does when it is called.
runHook(s, t, at) ==
    LET hook == s.tls[t].hook
    IN IF hook.at = at /\ s.nReq < MaxRequests
       THEN showSceneNamedMagic([s EXCEPT !.nReq = @ + 1],
                                Request(s.nReq + 1, hook.target, NoHook))
       ELSE s

\* A deletion that leaves the reference of the document state in place.
keepMasterTimeline(s) == s

\* delete documentState.masterTimeline
deleteMasterTimeline(s) == [s EXCEPT !.ref = 0]

\* Lines 1377-1381, reached when neither end handler has thrown.
cleanupEnd(s, t) ==
    IF s.exc THEN s ELSE [deleteMasterTimeline(s) EXCEPT !.tls[t].cleaned = TRUE]

\* Line 1375: the magicTransitionEnd behaviour.
triggerMagicTransitionEnd(s, t) ==
    IF s.exc THEN s
    ELSE only({cleanupEnd(s1, t) :
               s1 \in {runHook(Logged(s, "magicTransitionEnd", t), t, "magicTransitionEnd")}})

\* The branch of checkOpacity taken when the opacity is 1.
cleanup(s, t) ==
    LET unlocked ==
            Logged([s EXCEPT !.raf = Append(@, [kind |-> "restore", t |-> t, req |-> NoRequest]),
                             !.lock = FALSE,
                             !.marks[s.tls[t].cur] = @ \ {"currentScene", "fadeComplete"},
                             !.marks[s.tls[t].tgt] = @ \ {"targetScene", "fadeComplete"}],
                   "onTransitionEnd", t)
    IN only({triggerMagicTransitionEnd(s2, t) :
             s2 \in {only({runHook(s1, t, "onTransitionEnd") : s1 \in {unlocked}})}})

\* Mutant: the opacity is checked once.
checkOpacityOnce(s, t) ==
    IF opacityIsOne(s, s.tls[t].tgt)
    THEN cleanup(s, t)
    ELSE s

\* Lines 1354-1386: checkOpacity.
checkOpacity(s, t) ==
    IF opacityIsOne(s, s.tls[t].tgt)
    THEN cleanup(s, t)
    ELSE [s EXCEPT !.raf = Append(@, [kind |-> "check", t |-> t, req |-> NoRequest])]

\* Mutant: the timeline is moved to its end with its callbacks suppressed.
forceCompleteSuppressed(s, t) ==
    IF s.tls[t].status # "running" THEN s
    ELSE only({[renderAtEnd(s1, t) EXCEPT !.tls[t].forced = TRUE] : s1 \in {onStart(s, t)}})

\* masterTimeline.progress(1): nothing happens on a timeline that has ended.
forceComplete(s, t) ==
    IF s.tls[t].status # "running" THEN s
    ELSE only({checkOpacity(s2, t) :
               s2 \in {only({onUpdate([renderAtEnd(s1, t) EXCEPT !.tls[t].forced = TRUE], t) :
                             s1 \in {onStart(s, t)}})}})

\* Lines 1256-1263: the reference is deleted and the retry requested.
scheduleRetry(s, r, t) ==
    IF s.exc THEN [s EXCEPT !.thrown = TRUE]
    ELSE [deleteMasterTimeline(s) EXCEPT
              !.raf = Append(@, [kind |-> "retry", t |-> 0, req |-> [r EXCEPT !.after = t]])]

\* Lines 1247-1265: the guard, taken when the lock and a reference are there.
interrupt(s, r) ==
    only({scheduleRetry(s1, r, s.ref) :
          s1 \in {forceComplete([s EXCEPT !.guardSawEnded =
                                              @ \/ s.tls[s.ref].status # "running"],
                                s.ref)}})

showSceneNamedMagic(s, r) ==
    IF s.lock /\ s.ref # 0 THEN interrupt(s, r)
    ELSE IF r.target = SceneNameOf[s.current] THEN s
    ELSE IF sceneIndex(r.target) = 0 THEN s
    ELSE startTransition(s, r, sceneIndex(r.target))

\* The batch of the restoration frame: gsap.set of every registered element
\* that has an entry in the restore cache.
restoreElements(s, t) ==
    [s EXCEPT !.tls[t].restored = s.tls[t].restore \cap DOMAIN s.restoreCache,
              !.tls[t].batch = TRUE,
              !.tls[t].applied = fcn([e \in s.tls[t].restore \cap DOMAIN s.restoreCache |->
                                         s.restoreCache[e]]),
              !.style = fcn([e \in DOMAIN @ |->
                                IF e \in s.tls[t].restore \cap DOMAIN s.restoreCache
                                THEN rendered(s.restoreCache[e], @[e].transform.rotate)
                                ELSE @[e]])]

runCallback(s, cb) ==
    CASE cb.kind = "retry" -> showSceneNamedMagic(s, cb.req)
      [] cb.kind = "check" -> checkOpacity(s, cb.t)
      [] cb.kind = "restore" -> restoreElements(s, cb.t)

\* The callbacks of one animation frame in the order they were requested; an
\* exception ends the callback that raised it only.
RECURSIVE runCallbacks(_, _)
runCallbacks(s, cbs) ==
    IF cbs = <<>> THEN s
    ELSE only({runCallbacks(s1, Tail(cbs)) :
               s1 \in {Caught(runCallback(s, Head(cbs)))}})

(***************************************************************************)
(* The public trigger functions, the frames and the environment.           *)
(***************************************************************************)
HookPoints == {"onTransitionEnd", "magicTransitionEnd"}
HookTargets == {SceneNameOf[3]}
Hooks == {NoHook} \cup {[at |-> a, target |-> n] : a \in HookPoints, n \in HookTargets}
TargetNames == Range(SceneNameOf) \cup {UnknownSceneName}
CardNames ==
    {<<>>, <<">">>, <<"<">>, <<">", "B">>, <<"<", "B">>, <<">", "Q">>, SceneNameOf[1]}

\* A call from outside: the request is counted, an exception ends the call.
Call(r) == Becomes(Caught(showSceneNamedMagic([State EXCEPT !.nReq = @ + 1], r)))

ShowSceneNamedMagicCall(target, hook) ==
    /\ nReq < MaxRequests
    /\ Call(Request(nReq + 1, target, hook))
    /\ UNCHANGED <<pureVars, doc, defaultKeys>>

ShowNextSceneMagicCall(hook) ==
    /\ nReq < MaxRequests
    /\ IF current + 1 \in DOMAIN sceneNames
       THEN Call(Request(nReq + 1, sceneNames[current + 1], hook))
       ELSE Becomes([State EXCEPT !.nReq = @ + 1])
    /\ UNCHANGED <<pureVars, doc, defaultKeys>>

ShowPreviousSceneMagicCall(hook) ==
    /\ nReq < MaxRequests
    /\ IF current - 1 \in DOMAIN sceneNames
       THEN Call(Request(nReq + 1, sceneNames[current - 1], hook))
       ELSE Becomes([State EXCEPT !.nReq = @ + 1])
    /\ UNCHANGED <<pureVars, doc, defaultKeys>>

\* magicCard: the target scene name, or Null where the function returns early.
\* Mutant: every shorthand steps forward.
magicCardTargetForward(name0) ==
    LET name == IF name0 = <<>> THEN <<">">> ELSE name0
        n == Len(sceneNames)
        currentIndex == current - 1
        step == 1
        index(i) == (currentIndex + (step * i) + n) % n
        baseName == Tail(name)
        found == {i \in 1..n : startsWith(sceneNames[index(i) + 1], baseName)}
    IN IF name = <<">">> \/ name = <<"<">>
       THEN sceneNames[((currentIndex + step + n) % n) + 1]
       ELSE IF name[1] = ">" \/ name[1] = "<"
       THEN IF found = {} THEN Null
            ELSE sceneNames[index(CHOOSE i \in found : \A j \in found : i <= j) + 1]
       ELSE name

\* Lines 1716-1748: the scene name magicCard passes on, Null when it warns.
magicCardTarget(name0) ==
    LET name == IF name0 = <<>> THEN <<">">> ELSE name0
        n == Len(sceneNames)
        currentIndex == current - 1
        step == IF name[1] = ">" THEN 1 ELSE -1
        index(i) == (currentIndex + (step * i) + n) % n
        baseName == Tail(name)
        found == {i \in 1..n : startsWith(sceneNames[index(i) + 1], baseName)}
    IN IF name = <<">">> \/ name = <<"<">>
       THEN sceneNames[((currentIndex + step + n) % n) + 1]
       ELSE IF name[1] = ">" \/ name[1] = "<"
       THEN IF found = {} THEN Null
            ELSE sceneNames[index(CHOOSE i \in found : \A j \in found : i <= j) + 1]
       ELSE name

MagicCardCall(name, hook) ==
    /\ nReq < MaxRequests
    /\ IF magicCardTarget(name) # Null
       THEN Call(Request(nReq + 1, magicCardTarget(name), hook))
       ELSE Becomes([State EXCEPT !.nReq = @ + 1])
    /\ UNCHANGED <<pureVars, doc, defaultKeys>>

\* The options argument of magicCard: nothing, a number, or an object with or
\* without a duration.
NoCardOptions == [kind |-> "undefined", number |-> 0, duration |-> Undefined]
CardNumber(n) == [kind |-> "number", number |-> n, duration |-> Undefined]
CardObject(duration) == [kind |-> "object", number |-> 0, duration |-> duration]

\* Lines 1708-1713: options || {}, then a number becomes { duration: options }.
magicCardOptions(options) ==
    LET given == IF options.kind = "undefined" \/ (options.kind = "number" /\ options.number = 0)
                 THEN CardObject(Undefined)
                 ELSE options
    IN IF given.kind = "number" THEN CardObject(Num(given.number)) ELSE given

\* Line 1312: duration || getDefault('durationTransition')
transitionDuration(duration) ==
    IF duration.type = "undefined" \/ (duration.type = "number" /\ duration.num = 0)
    THEN Num(durationTransition)
    ELSE duration

\* The tweening service: the crossfade tween reaches its end.
CrossfadeEnds(t) ==
    /\ tls[t].status = "running"
    /\ ~tls[t].fade
    /\ Becomes(onUpdate(crossfadeComplete(onStart(State, t), t), t))
    /\ UNCHANGED <<pureVars, doc, defaultKeys>>

\* The tweening service: an element tween reaches its end.
TweenEnds(t, i) ==
    /\ tls[t].status = "running"
    /\ tls[t].tweens[i].st = "active"
    /\ Becomes(onUpdate(settle([onStart(State, t) EXCEPT
                                     !.tls[t].tweens[i].st = "done",
                                     !.style[tls[t].tweens[i].el] = tls[t].tweens[i].end]), t))
    /\ UNCHANGED <<pureVars, doc, defaultKeys>>

\* The tweening service: every child has ended, the timeline's onComplete runs.
MasterCompletes(t) ==
    /\ tls[t].status = "running"
    /\ tls[t].fade
    /\ \A i \in DOMAIN tls[t].tweens : tls[t].tweens[i].st # "active"
    /\ Becomes(Caught(checkOpacity(
                   onUpdate(onStart([State EXCEPT !.tls[t].status = "complete"], t), t), t)))
    /\ UNCHANGED <<pureVars, doc, defaultKeys>>

\* An animation frame: the callbacks requested before it, in order.
Frame ==
    /\ raf # <<>>
    /\ Becomes(runCallbacks([State EXCEPT !.raf = <<>>], raf))
    /\ UNCHANGED <<pureVars, doc, defaultKeys>>

\* The host's own crossfade to the scene it shows has ended.
HostSceneShown(scene) ==
    /\ scene = current
    /\ ~hostOpaque[scene]
    /\ hostOpaque' = [hostOpaque EXCEPT ![scene] = TRUE]
    /\ UNCHANGED <<pureVars, doc, defaultKeys, current, lock, marks, sceneOpacity, ref,
                   tls, raf, style, zIndex, pristine, restoreCache, log, thrown, guardSawEnded,
                   nReq>>

WellFormedDoc ==
    [elems |-> << <<DivMagicFoo>>, <<DivMagicFoo>>, <<DivIdFooBar>> >>,
     present |-> <<TRUE, TRUE, TRUE>>]

PureIdle ==
    /\ idElement = Unset
    /\ idResult = Unset
    /\ timingArgs = Unset
    /\ timingResult = Unset
    /\ pcPure = "idle"
    /\ RegistryIdle
    /\ CardIdle
    /\ FnIdle
    /\ ClockIdle
    /\ SecondIdle

ZNodes(d) ==
    UNION {{<<sc, i, k>> : i \in 1..Len(d.elems[sc]), k \in {"self", "container"}} : sc \in Scenes}

AllElements(d) == UNION {{<<sc, i>> : i \in 1..Len(d.elems[sc])} : sc \in Scenes}

\* The document is loaded with the authored styles and shows its first scene.
EngineStyled(d, authored) ==
    /\ doc = d
    /\ defaultKeys = AllDefaultKeys
    /\ current = 1
    /\ lock = FALSE
    /\ marks = [sc \in Scenes |-> {}]
    /\ sceneOpacity = [sc \in Scenes |-> FALSE]
    /\ hostOpaque = [sc \in Scenes |-> sc = 1]
    /\ ref = 0
    /\ tls = <<>>
    /\ raf = <<>>
    /\ style = authored
    /\ zIndex = [n \in ZNodes(d) |-> NoZIndex]
    /\ pristine = [e \in {<<1, i>> : i \in {j \in 1..Len(d.elems[1]) :
                           matchesMagicSelector(d.elems[1][j])
                           \/ matchesAnimationSelector(d.elems[1][j])}} |-> authored[e]]
    /\ restoreCache = NoEntries
    /\ log = <<>>
    /\ thrown = FALSE
    /\ guardSawEnded = FALSE
    /\ nReq = 0

EngineIdle(d) == EngineStyled(d, [e \in AllElements(d) |-> PlainStyle])

Init == PureIdle /\ EngineIdle(WellFormedDoc)

Next ==
    \/ \E target \in TargetNames, hook \in Hooks : ShowSceneNamedMagicCall(target, hook)
    \/ \E hook \in Hooks : ShowNextSceneMagicCall(hook)
    \/ \E hook \in Hooks : ShowPreviousSceneMagicCall(hook)
    \/ \E name \in CardNames, hook \in Hooks : MagicCardCall(name, hook)
    \/ \E t \in DOMAIN tls : CrossfadeEnds(t)
    \/ \E t \in DOMAIN tls : \E i \in DOMAIN tls[t].tweens : TweenEnds(t, i)
    \/ \E t \in DOMAIN tls : MasterCompletes(t)
    \/ Frame
    \/ \E scene \in Scenes : HostSceneShown(scene)

Spec == Init /\ [][Next]_vars

(***************************************************************************)
(* One request on a document whose scenes, scene elements and defaults     *)
(* vary: what a single call builds.                                        *)
(***************************************************************************)
MaxSceneElems == 2

ElementKinds ==
    {DivMagicFoo, DivCapitalMagicFoo, DivIdFooBar, DivMagicBarFade, DivFadeOnly,
     DivScaleOnly, DivMagicBarFromTo, DivCapitalMagicBarFade}

SceneContents == UNION {[1..n -> ElementKinds] : n \in 0..MaxSceneElems}

\* The first scene is on display; the element of the second may be missing
\* for the layout index the host reports.
Documents ==
    {[elems |-> <<a, b, <<>>>>, present |-> <<TRUE, TRUE, TRUE>>] :
        a \in SceneContents, b \in SceneContents}
    \cup {[elems |-> <<a, <<>>, <<>>>>, present |-> <<TRUE, FALSE, TRUE>>] :
              a \in SceneContents}

\* The arguments of setDefault: an object (its keys) or a key and a value.
SetDefaultArgs ==
    {[bulk |-> TRUE, keys |-> {}, key |-> ""],
     [bulk |-> TRUE, keys |-> AllDefaultKeys \ {"easingMap"}, key |-> ""],
     [bulk |-> TRUE, keys |-> AllDefaultKeys \ {"skipProperties"}, key |-> ""],
     [bulk |-> FALSE, keys |-> {}, key |-> "durationTransition"]}

setDefault(keys, arg) == IF arg.bulk THEN arg.keys ELSE keys \cup {arg.key}

SetDefaultCall(arg) ==
    /\ nReq = 0
    /\ defaultKeys = AllDefaultKeys
    /\ defaultKeys' = setDefault(defaultKeys, arg)
    /\ UNCHANGED <<pureVars, doc, current, lock, marks, sceneOpacity, hostOpaque, ref,
                   tls, raf, style, zIndex, pristine, restoreCache, log, thrown, guardSawEnded,
                   nReq>>

BuildCardNames == {<<">">>, <<">", "Q">>}

InitBuild == PureIdle /\ \E d \in Documents : EngineIdle(d)

NextBuild ==
    \/ \E arg \in SetDefaultArgs : SetDefaultCall(arg)
    \/ \E target \in TargetNames : nReq = 0 /\ ShowSceneNamedMagicCall(target, NoHook)
    \/ nReq = 0 /\ ShowNextSceneMagicCall(NoHook)
    \/ nReq = 0 /\ ShowPreviousSceneMagicCall(NoHook)
    \/ \E name \in BuildCardNames : nReq = 0 /\ MagicCardCall(name, NoHook)

SpecBuild == InitBuild /\ [][NextBuild]_vars

NextIds == CallGetTransitionIdentifiers /\ UNCHANGED engineVars

InitIds == IdsReady /\ EngineIdle(WellFormedDoc)

SpecIds == InitIds /\ [][NextIds]_vars

NextTiming == CallCalculateTimingValues /\ UNCHANGED engineVars

InitTiming == TimingReady /\ EngineIdle(WellFormedDoc)

SpecTiming == InitTiming /\ [][NextTiming]_vars

(***************************************************************************)
(* The animation registry on its own: registrations of string and object   *)
(* animations under names of several casings, and lookups.                 *)
(***************************************************************************)
MaxRegistrations == 2

NameFade == <<"f","a","d","e">>
NameFadeCapital == <<"F","a","d","e">>
NameFadeUpper == <<"F","A","D","E">>
NameSlide == <<"s","l","i","d","e">>
NameNone == <<"n","o","n","e">>
NameConstructor == <<"c","o","n","s","t","r","u","c","t","o","r">>

RegisterNames == {NameFade, NameFadeCapital, NameSlide}
LookupNames == RegisterNames \cup {NameFadeUpper, NameNone, NameConstructor}

HalfOpacity == SetProp(NoProps, <<"o","p","a","c","i","t","y">>, Num(Scale \div 2))

Animations ==
    {AnimationString(FadeOut), AnimationString(ScaleHalf), AnimationString(ScaleNoValue),
     AnimationString(<<>>), AnimationObject(HalfOpacity)}

RegisterAnimationCall(name, animation) ==
    /\ Len(registrations) < MaxRegistrations
    /\ registeredAnimations' = registerAnimation(registeredAnimations, name, animation).registry
    /\ registrations' =
           Append(registrations,
                  [name |-> name, animation |-> animation,
                   threw |-> registerAnimation(registeredAnimations, name, animation).threw])
    /\ UNCHANGED <<idElement, idResult, timingArgs, timingResult, pcPure, lookedUp, cardVars,
                   fnVars, clockVars, secondVars, engineVars>>

GetRegisteredAnimationCall(name) ==
    /\ lookedUp' = <<[name |-> name,
                      result |-> getRegisteredAnimation(registeredAnimations, name),
                      at |-> Len(registrations)]>>
    /\ UNCHANGED <<idElement, idResult, timingArgs, timingResult, pcPure,
                   registeredAnimations, registrations, cardVars, fnVars, clockVars, secondVars,
                   engineVars>>

NextRegistry ==
    \/ \E name \in RegisterNames : \E animation \in Animations :
           RegisterAnimationCall(name, animation)
    \/ \E name \in LookupNames : GetRegisteredAnimationCall(name)

InitRegistry == PureIdle /\ EngineIdle(WellFormedDoc)

SpecRegistry == InitRegistry /\ [][NextRegistry]_vars

(***************************************************************************)
(* A function checked on its own: Init draws its input, the one action     *)
(* applies it.                                                             *)
(***************************************************************************)
FnReady(inputs) ==
    /\ idElement = Unset
    /\ idResult = Unset
    /\ timingArgs = Unset
    /\ timingResult = Unset
    /\ pcPure = "idle"
    /\ RegistryIdle
    /\ CardIdle
    /\ fnArgs \in {<<input>> : input \in inputs}
    /\ fnResult = <<>>
    /\ ClockIdle
    /\ SecondIdle

FnReturns(result) ==
    /\ fnResult = <<>>
    /\ fnResult' = <<result>>
    /\ UNCHANGED <<idElement, idResult, timingArgs, timingResult, pcPure, registryVars,
                   cardVars, fnArgs, clockVars, secondVars, engineVars>>

(***************************************************************************)
(* The rotation handling of a matched pair, lines 1494-1528, on property   *)
(* sets as the code holds them: a map from property name to value, the     *)
(* transform a list of transform functions, each a name and an argument.   *)
(***************************************************************************)
RotationKeys == {"rotate", "rotateX", "rotateY", "rotateZ"}

Auto == <<"a","u","t","o">>
Px100 == <<"1","0","0","p","x">>
Deg10 == <<"1","0","d","e","g">>
Deg380 == <<"3","8","0","d","e","g">>

TransformFunction(name, argument) == [name |-> name, argument |-> argument]
TranslateX == TransformFunction("translateX", Px100)

\* The values the code writes: fromValue + 'deg' and `+=${delta}`.
Degrees(n) == [relative |-> FALSE, num |-> n]
RelativeBy(n) == [relative |-> TRUE, num |-> n]

\* Lines 1215-1226: every rotate, rotateX, rotateY, rotateZ function leaves the
\* transform, the last argument of each name is kept.
extractRotations(transform) ==
    LET names == {transform[i].name : i \in DOMAIN transform} \cap RotationKeys
        last(k) == CHOOSE i \in DOMAIN transform :
                       /\ transform[i].name = k
                       /\ \A j \in DOMAIN transform : transform[j].name = k => j <= i
    IN [rotations |-> [k \in names |-> transform[last(k)].argument],
        transform |-> SelectSeq(transform, LAMBDA f : f.name \notin RotationKeys)]

\* Object.assign(properties, rotations); properties.transform = transform
assignRotations(properties, extracted) ==
    [k \in DOMAIN properties \cup DOMAIN extracted.rotations \cup {"transform"} |->
        IF k = "transform" THEN extracted.transform
        ELSE IF k \in DOMAIN extracted.rotations THEN extracted.rotations[k]
        ELSE properties[k]]

\* parseFloat(properties[key]) || 0
angleOf(properties, key) ==
    IF key \in DOMAIN properties THEN parseFloatChars(properties[key]) ELSE 0

\* Mutant: the delta is folded to the shortest path.
rotationDeltaShortest(from, to, key) ==
    LET delta == (angleOf(to, key) - angleOf(from, key)) % (360 * Scale)
    IN IF delta > 180 * Scale THEN delta - 360 * Scale ELSE delta

\* Line 1508: const delta = toValue - fromValue
rotationDelta(from, to, key) == angleOf(to, key) - angleOf(from, key)

\* Lines 1505-1527: the property set of one side after both loops.
decomposedSide(from, to, own, isFrom) ==
    LET moving == {k \in RotationKeys : rotationDelta(from, to, k) # 0}
        bothAuto == {k \in {"width", "height"} :
                        /\ k \in DOMAIN from /\ k \in DOMAIN to
                        /\ from[k] = Auto /\ to[k] = Auto}
    IN [k \in ((DOMAIN own \ RotationKeys) \ bothAuto) \cup moving |->
           IF k \in moving
           THEN (IF isFrom THEN Degrees(angleOf(from, k))
                 ELSE RelativeBy(rotationDelta(from, to, k)))
           ELSE own[k]]

\* Lines 1494-1528
decomposeRotations(fromProperties, toProperties) ==
    LET from == assignRotations(fromProperties, extractRotations(fromProperties.transform))
        to == assignRotations(toProperties, extractRotations(toProperties.transform))
    IN [from |-> decomposedSide(from, to, from, TRUE),
        to |-> decomposedSide(from, to, to, FALSE)]

\* The rotation of a channel as authored: none, or an angle with the degrees
\* it stands for.
NoAngle == [set |-> FALSE, chars |-> <<>>, deg |-> 0]
AngleGiven(chars, deg) == [set |-> TRUE, chars |-> chars, deg |-> deg]
Angles == {NoAngle, AngleGiven(Deg10, 10), AngleGiven(Deg380, 380)}
FewAngles == {NoAngle, AngleGiven(Deg10, 10)}

\* The property set of an element authored with these rotations and width.
PropertiesOf(angles, width) ==
    [transform |->
         <<TranslateX>> \o
         (IF angles.rotate.set THEN <<TransformFunction("rotate", angles.rotate.chars)>> ELSE <<>>) \o
         (IF angles.rotateX.set THEN <<TransformFunction("rotateX", angles.rotateX.chars)>> ELSE <<>>) \o
         (IF angles.rotateY.set THEN <<TransformFunction("rotateY", angles.rotateY.chars)>> ELSE <<>>) \o
         (IF angles.rotateZ.set THEN <<TransformFunction("rotateZ", angles.rotateZ.chars)>> ELSE <<>>),
     width |-> width,
     height |-> Auto]

Authored ==
    {[angles |-> a, width |-> w] :
        a \in [rotate : Angles, rotateX : FewAngles, rotateY : FewAngles, rotateZ : Angles],
        w \in {Auto, Px100}}

CallDecomposeRotations ==
    FnReturns(decomposeRotations(PropertiesOf(fnArgs[1].from.angles, fnArgs[1].from.width),
                                 PropertiesOf(fnArgs[1].to.angles, fnArgs[1].to.width)))

InitDecompose == FnReady([from : Authored, to : Authored]) /\ EngineIdle(WellFormedDoc)

SpecDecompose == InitDecompose /\ [][CallDecomposeRotations]_vars

(***************************************************************************)
(* The stacking order of a pair, lines 992-1019, on a fragment of the      *)
(* document: the children of one parent, each with its class, its computed *)
(* z-index as the browser reports it, and at most one child of its own.    *)
(***************************************************************************)
ContainerClass == "HYPE_element_container"
GroupClass == "HYPE_element"

\* parseInt: an optional minus sign and digits; NaN without digits.
parseIntChars(s) ==
    LET negative == s # <<>> /\ Head(s) = "-"
        digits == leadingDigits(IF negative THEN Tail(s) ELSE s)
    IN [nan |-> digits = <<>>,
        value |-> IF negative THEN 0 - digitsValue(digits) ELSE digitsValue(digits)]

\* Number.prototype.toString of an integer
RECURSIVE naturalToString(_)
naturalToString(n) ==
    IF n < 10 THEN <<Digits[n + 1]>>
    ELSE Append(naturalToString(n \div 10), Digits[(n % 10) + 1])
integerToString(n) == IF n < 0 THEN <<"-">> \o naturalToString(0 - n) ELSE naturalToString(n)

\* An element of the fragment is the path to it: <<i>> the i-th child of the
\* parent, <<i, 1>> the child of that one.
elementAt(fragment, path) ==
    IF Len(path) = 1 THEN fragment[path[1]] ELSE fragment[path[1]].children[path[2]]
childrenOfParent(fragment, path) ==
    IF Len(path) = 1 THEN fragment ELSE fragment[path[1]].children

\* Lines 992-997
zIndexElementOf(fragment, element) ==
    IF Len(element) = 2 /\ ContainerClass \in elementAt(fragment, <<element[1]>>).classList
    THEN <<element[1]>>
    ELSE element

\* Line 1008: parseInt(getComputedStyle(el).zIndex) || 0
zIndices(fragment, element) ==
    LET siblings == childrenOfParent(fragment, element)
    IN {(LET z == parseIntChars(siblings[i].zIndex)
         IN IF z.nan THEN 0 ELSE z.value) : i \in DOMAIN siblings}

maxZ(fragment, element) ==
    CHOOSE z \in zIndices(fragment, element) : \A y \in zIndices(fragment, element) : z >= y
minZ(fragment, element) ==
    CHOOSE z \in zIndices(fragment, element) : \A y \in zIndices(fragment, element) : z <= y

\* Mutant: 'front' takes the highest z-index of the siblings itself.
zIndexForLevel(fragment, element, order) ==
    IF order = Front THEN integerToString(maxZ(fragment, element))
    ELSE IF order = Back THEN integerToString(minZ(fragment, element) - 1)
    ELSE order

\* Lines 1005-1019
zIndexFor(fragment, element, order) ==
    IF order = Front THEN integerToString(maxZ(fragment, element) + 1)
    ELSE IF order = Back THEN integerToString(minZ(fragment, element) - 1)
    ELSE order

\* Lines 1480-1482: the element restyled and the z-index it gets.
restyled(fragment, targetElement, order) ==
    [element |-> zIndexElementOf(fragment, targetElement),
     zIndex |-> zIndexFor(fragment, zIndexElementOf(fragment, targetElement), order)]

\* Computed z-index values, with the number each counts as.
ZAuto == Numeral(<<"a","u","t","o">>, 0)
ZFive == Numeral(<<"5">>, 5)
ZTwelve == Numeral(<<"1","2">>, 12)
ZMinusThree == Numeral(<<"-","3">>, -3)
ZValues == {ZAuto, ZFive, ZTwelve, ZMinusThree}
Seven == <<"7">>

Leaf(z) == [classList |-> {GroupClass}, zIndex |-> z.chars, counts |-> z.value, children |-> <<>>]
Parent(class, z, child) ==
    [classList |-> {class}, zIndex |-> z.chars, counts |-> z.value, children |-> <<child>>]
FragmentNodes ==
    {Leaf(z) : z \in ZValues}
    \cup {Parent(c, z, Leaf(y)) : c \in {ContainerClass, GroupClass}, z \in ZValues,
                                 y \in {ZAuto, ZFive}}
MaxSiblings == 2
Fragments == UNION {[1..n -> FragmentNodes] : n \in 1..MaxSiblings}

\* The target element of a pair is an innermost element of the fragment.
targetAt(fragment, i) == IF fragment[i].children = <<>> THEN <<i>> ELSE <<i, 1>>

OrderInputs ==
    {[fragment |-> f, at |-> i, order |-> o] :
        f \in Fragments, i \in 1..MaxSiblings, o \in {Front, Back, Seven}}

CallDetermineZIndex ==
    FnReturns(restyled(fnArgs[1].fragment, targetAt(fnArgs[1].fragment, fnArgs[1].at),
                       fnArgs[1].order))

InitOrder ==
    /\ FnReady({in \in OrderInputs : in.at \in DOMAIN in.fragment})
    /\ EngineIdle(WellFormedDoc)

SpecOrder == InitOrder /\ [][CallDetermineZIndex]_vars

(***************************************************************************)
(* parseSimpleAnimation on directive strings put together from tokens,     *)
(* well-formed and not.                                                    *)
(***************************************************************************)
Token(chars, wellFormed, key, value) ==
    [chars |-> chars, wellFormed |-> wellFormed, key |-> key, value |-> value]
OpacityKey == <<"o","p","a","c","i","t","y">>
ScaleKey == <<"s","c","a","l","e">>
LeftKey == <<"l","e","f","t">>
DirectiveTokens ==
    {Token(OpacityKey \o <<":","0">>, TRUE, OpacityKey, Str(<<"0">>)),
     Token(<<" ">> \o LeftKey \o <<":"," ","5">>, TRUE, LeftKey, Str(<<"5">>)),
     Token(ScaleKey \o <<":","2">>, TRUE, ScaleKey, Str(<<"2">>)),
     Token(ScaleHalf, TRUE, ScaleKey, Num(Scale \div 2)),
     Token(OpacityKey, FALSE, OpacityKey, Undefined),
     Token(LeftKey \o <<":">>, FALSE, LeftKey, Undefined),
     Token(ScaleKey, FALSE, ScaleKey, Undefined),
     Token(ScaleKey \o <<"X">>, FALSE, ScaleKey \o <<"X">>, Undefined)}
MaxDirectiveTokens == 2
Directives == UNION {[1..n -> DirectiveTokens] : n \in 1..MaxDirectiveTokens}

directiveString(tokens) == join([i \in DOMAIN tokens |-> tokens[i].chars], ";")

CallParseSimpleAnimation == FnReturns(parseSimpleAnimation(directiveString(fnArgs[1])))

InitParse == FnReady(Directives) /\ EngineIdle(WellFormedDoc)

SpecParse == InitParse /\ [][CallParseSimpleAnimation]_vars

(***************************************************************************)
(* The master timeline on the clock of the tweening service.  Times are in *)
(* milliseconds, factors in thousandths.  A request gives a duration and a *)
(* crossfade factor, or leaves them out; the element tweens of its build   *)
(* are given by their side, delay and duration (the values that            *)
(* calculateTimingValues returns).  A timeline is as long as the latest    *)
(* end of the children it holds, a cancelled tween leaves it, and it       *)
(* completes when its playhead has reached its end.                        *)
(***************************************************************************)
crossFadeFactor == 500

\* Line 1313: options.crossFadeFactor !== undefined ? ... : getDefault(...)
crossFadeFactorOf(options) ==
    IF options.crossFadeFactor.type = "undefined" THEN crossFadeFactor
    ELSE options.crossFadeFactor.num

\* Mutant: options.crossFadeFactor || getDefault('crossFadeFactor')
crossFadeDurationOr(options) ==
    (transitionDuration(options.duration).num
        * (IF options.crossFadeFactor.type = "undefined" \/ options.crossFadeFactor.num = 0
           THEN crossFadeFactor ELSE options.crossFadeFactor.num)) \div Scale

\* Line 1314: duration * crossFadeFactor
crossFadeDuration(options) ==
    (transitionDuration(options.duration).num * crossFadeFactorOf(options)) \div Scale

TimedTween(kind, start, end) == [kind |-> kind, start |-> start, end |-> end, st |-> "active"]

\* Lines 1544, 1573, 1628, 1669: the element tweens, each at its delay.
elementTweens(subs) ==
    [i \in DOMAIN subs |->
        TimedTween(subs[i].side, subs[i].delay, subs[i].delay + subs[i].duration)]

\* Mutant: no tween of the requested duration.
timedChildrenBare(options, subs) ==
    <<TimedTween("crossfade", 0, crossFadeDuration(options))>> \o elementTweens(subs)

\* Lines 1390-1410 and the build: the children of the master timeline.
timedChildren(options, subs) ==
    <<TimedTween("dummy", 0, transitionDuration(options.duration).num),
      TimedTween("crossfade", 0, crossFadeDuration(options))>> \o elementTweens(subs)

\* Lines 1320-1321 and 1338-1410
timedTimeline(options, subs) ==
    [time |-> 0, status |-> "running", tweens |-> timedChildren(options, subs),
     currentScene |-> {"currentScene"}, targetScene |-> {"targetScene"}]

\* The tweening service: the end of the timeline.
totalDuration(c) ==
    LET ends == {c.tweens[i].end : i \in {j \in DOMAIN c.tweens : c.tweens[j].st # "killed"}}
    IN IF ends = {} THEN 0 ELSE CHOOSE e \in ends : \A x \in ends : x <= e

fadeDone(c) == \E i \in DOMAIN c.tweens : c.tweens[i].kind = "crossfade" /\ c.tweens[i].st = "done"

\* Lines 1401-1406: onComplete of the crossfade.
timedCrossfadeComplete(c) ==
    [c EXCEPT !.currentScene = @ \cup {"fadeComplete"},
              !.targetScene = @ \cup {"fadeComplete"},
              !.tweens = [i \in DOMAIN @ |->
                             IF @[i].kind = "source" /\ @[i].st = "active"
                             THEN [@[i] EXCEPT !.st = "killed"] ELSE @[i]]]

\* Lines 1352-1384: onComplete of the master timeline; the target scene is at
\* opacity 1 once it is marked fadeComplete.
timedComplete(c) ==
    IF "fadeComplete" \in c.targetScene
    THEN [c EXCEPT !.status = "complete",
                   !.currentScene = @ \ {"currentScene", "fadeComplete"},
                   !.targetScene = @ \ {"targetScene", "fadeComplete"}]
    ELSE [c EXCEPT !.status = "complete"]

\* The tweening service: the timeline rendered with its playhead at "time".
renderAt(c, time) ==
    LET ended == [c EXCEPT !.time = time,
                           !.tweens = [i \in DOMAIN @ |->
                                          IF @[i].st = "active" /\ @[i].end <= time
                                          THEN [@[i] EXCEPT !.st = "done"] ELSE @[i]]]
        faded == IF fadeDone(ended) /\ ~fadeDone(c) THEN timedCrossfadeComplete(ended) ELSE ended
    IN IF time >= totalDuration(c) THEN timedComplete(faded) ELSE faded

NumberOptions == {Undefined, Num(0), Num(1000), Num(2000)}
FactorOptions == {Undefined, Num(0), Num(500), Num(1500)}
SubTweens == [side : {"source", "target"}, delay : {0, 500}, duration : {250, 2500}]
MaxSubTweens == 2
TickSteps == {250, 1000}

TimedRequests ==
    {[options |-> [duration |-> d, crossFadeFactor |-> f], subs |-> subs] :
        d \in NumberOptions, f \in FactorOptions,
        subs \in UNION {[1..n -> SubTweens] : n \in 0..MaxSubTweens}}

\* showSceneNamedMagic(name, duration, ease, options) with no transition
\* running.
TimedShowSceneNamedMagic ==
    /\ clock = <<>>
    /\ clock' = <<timedTimeline(clockArgs[1].options, clockArgs[1].subs)>>
    /\ UNCHANGED <<idElement, idResult, timingArgs, timingResult, pcPure, registryVars,
                   cardVars, fnVars, clockArgs, secondVars, engineVars>>

\* A tick of the tweening service.
Tick(step) ==
    /\ clock # <<>>
    /\ clock[1].status = "running"
    /\ LET limit == totalDuration(clock[1])
           time == IF clock[1].time + step <= limit THEN clock[1].time + step
                   ELSE IF clock[1].time <= limit THEN limit ELSE clock[1].time
       IN clock' = <<renderAt(clock[1], time)>>
    /\ UNCHANGED <<idElement, idResult, timingArgs, timingResult, pcPure, registryVars,
                   cardVars, fnVars, clockArgs, secondVars, engineVars>>

\* Line 1251: masterTimeline.progress(1), made by the next request.
ProgressOne ==
    /\ clock # <<>>
    /\ clock[1].status = "running"
    /\ LET limit == totalDuration(clock[1])
       IN clock' = <<renderAt(clock[1], IF clock[1].time <= limit THEN limit ELSE clock[1].time)>>
    /\ UNCHANGED <<idElement, idResult, timingArgs, timingResult, pcPure, registryVars,
                   cardVars, fnVars, clockArgs, secondVars, engineVars>>

NextClock ==
    \/ TimedShowSceneNamedMagic
    \/ \E step \in TickSteps : Tick(step)
    \/ ProgressOne

InitClock ==
    /\ idElement = Unset
    /\ idResult = Unset
    /\ timingArgs = Unset
    /\ timingResult = Unset
    /\ pcPure = "idle"
    /\ RegistryIdle
    /\ CardIdle
    /\ FnIdle
    /\ clockArgs \in {<<r>> : r \in TimedRequests}
    /\ clock = <<>>
    /\ SecondIdle
    /\ EngineIdle(WellFormedDoc)

SpecClock == InitClock /\ [][NextClock]_vars

(***************************************************************************)
(* The attributes of a matched pair, lines 1456-1474, on the attribute     *)
(* lists of the two elements: a map from attribute name to value.          *)
(***************************************************************************)
NullValue == [type |-> "null", num |-> 0, chars |-> <<>>]

\* element.getAttribute(name): null when the element has no such attribute.
attributeOf(attributes, name) ==
    IF name \in DOMAIN attributes THEN Str(attributes[name]) ELSE NullValue

\* a || b on attribute values and defaults
orDefault(value, defaultValue) ==
    IF value.type \in {"null", "undefined"} \/ (value.type = "string" /\ value.chars = <<>>)
    THEN defaultValue ELSE value

\* Mutant: the target element's attribute stands in for a missing one of the
\* source element.
pairAttributeValueEither(source, target, attr, defaultValue) ==
    IF attributeOf(source, attr) = Str(Target)
    THEN orDefault(attributeOf(target, attr), defaultValue)
    ELSE orDefault(attributeOf(source, attr), orDefault(attributeOf(target, attr), defaultValue))

\* Lines 1457-1463
pairAttributeValue(source, target, attr, defaultValue) ==
    IF attributeOf(source, attr) = Str(Target)
    THEN orDefault(attributeOf(target, attr), defaultValue)
    ELSE orDefault(attributeOf(source, attr), defaultValue)

\* Lines 1466-1474
pairAttributes(source, target, ease) ==
    [delayPercentage |-> pairAttributeValue(source, target, "data-transition-delay", Num(0)),
     durationPercentage |->
         pairAttributeValue(source, target, "data-transition-duration", Num(Scale)),
     transitionOrder |-> pairAttributeValue(source, target, "data-transition-order", NullValue),
     easing |-> pairAttributeValue(source, target, "data-transition-ease", ease)]

PairAttributeNames ==
    {"data-transition-delay", "data-transition-duration", "data-transition-order",
     "data-transition-ease"}
SourceValue == <<"2">>
TargetValue == <<"3">>
AttributeLists(values) ==
    UNION {[names -> values] : names \in SUBSET PairAttributeNames}
EaseNone == Str(<<"n","o","n","e">>)

PairInputs ==
    [source : AttributeLists({Target, <<>>, SourceValue}),
     target : AttributeLists({TargetValue})
                  \cup {[n \in {"data-transition-delay"} |-> v] : v \in {<<>>, Target}},
     ease : {EaseNone, Undefined}]

CallGetAttributeValues ==
    FnReturns(pairAttributes(fnArgs[1].source, fnArgs[1].target, fnArgs[1].ease))

InitPair == FnReady(PairInputs) /\ EngineIdle(WellFormedDoc)

SpecPair == InitPair /\ [][CallGetAttributeValues]_vars

(***************************************************************************)
(* The layouts of the two scenes, lines 1280-1302.  A layout has a name, a *)
(* width, a height and the index of its scene element (layout._).          *)
(***************************************************************************)
\* Array.prototype.find: the first element that passes the test, if any.
find(array, Test(_)) ==
    LET passing == {i \in DOMAIN array : Test(array[i])}
    IN IF passing = {} THEN <<>>
       ELSE <<array[CHOOSE i \in passing : \A j \in passing : i <= j]>>

\* Lines 1281-1285
currentLayoutOf(currentLayouts, currentLayoutName) ==
    LET named == find(currentLayouts, LAMBDA layout : layout.name = currentLayoutName)
    IN IF named # <<>> THEN named[1] ELSE currentLayouts[1]

\* Mutant: one search, by name or by dimensions.
targetLayoutOfEither(targetLayouts, currentLayoutName, currentLayout) ==
    LET found == find(targetLayouts,
                      LAMBDA layout : \/ layout.name = currentLayoutName
                                      \/ /\ layout.width = currentLayout.width
                                         /\ layout.height = currentLayout.height)
    IN IF found # <<>> THEN found[1] ELSE targetLayouts[1]

\* Lines 1288-1298
targetLayoutOf(targetLayouts, currentLayoutName, currentLayout) ==
    LET named == find(targetLayouts, LAMBDA layout : layout.name = currentLayoutName)
        sized == find(targetLayouts,
                      LAMBDA layout : /\ layout.width = currentLayout.width
                                      /\ layout.height = currentLayout.height)
    IN IF named # <<>> THEN named[1]
       ELSE IF sized # <<>> THEN sized[1]
       ELSE targetLayouts[1]

\* Lines 1281-1302: the scene elements of the transition.
sceneIndices(currentLayouts, currentLayoutName, targetLayouts) ==
    LET currentLayout == currentLayoutOf(currentLayouts, currentLayoutName)
    IN [currentSceneIdx |-> currentLayout.index,
        targetSceneIdx |-> targetLayoutOf(targetLayouts, currentLayoutName, currentLayout).index]

LayoutNames == {"Desktop", "Phone"}
LayoutSizes == {[width |-> 1024, height |-> 768], [width |-> 320, height |-> 480],
                [width |-> 1024, height |-> 480]}
MaxLayouts == 3

\* The layouts of a scene, its scene elements numbered from "first" on.
LayoutsFrom(first) ==
    UNION {{[i \in 1..n |-> [name |-> names[i], width |-> sizes[i].width,
                             height |-> sizes[i].height, index |-> first + i]] :
               names \in [1..n -> LayoutNames], sizes \in [1..n -> LayoutSizes]} :
           n \in 1..MaxLayouts}

\* The scene shown has layouts of different names and shows one of them.
LayoutInputs ==
    {[current |-> c, shown |-> i, target |-> t] :
        c \in {l \in LayoutsFrom(0) :
                  Len(l) <= 2 /\ \A j, k \in DOMAIN l : l[j].name = l[k].name => j = k},
        i \in 1..2,
        t \in LayoutsFrom(MaxLayouts)}

CallSceneIndices ==
    FnReturns(sceneIndices(fnArgs[1].current, fnArgs[1].current[fnArgs[1].shown].name,
                           fnArgs[1].target))

InitLayout ==
    /\ FnReady({in \in LayoutInputs : in.shown \in DOMAIN in.current})
    /\ EngineIdle(WellFormedDoc)

SpecLayout == InitLayout /\ [][CallSceneIndices]_vars

(***************************************************************************)
(* magicCard on its own: the host shows one scene or another, then         *)
(* magicCard is called with a name and an options argument.                *)
(***************************************************************************)
MaxCardRequests == 1

CardOptions ==
    {NoCardOptions, CardNumber(0), CardNumber(2 * Scale), CardObject(Undefined),
     CardObject(Num(Scale))}

\* The host's own scene change, made by the page before any magic transition.
HostShowSceneNamedCall(scene) ==
    /\ nReq = 0
    /\ scene # current
    /\ Becomes(hostShowSceneNamed(State, scene))
    /\ UNCHANGED <<pureVars, doc, defaultKeys>>

\* magicCard(name, options): the call, with its arguments, the scene it was
\* made on, the name it passes to showSceneNamedMagic and the duration that
\* call resolves.
MagicCardOptionsCall(name, options) ==
    /\ nReq < MaxCardRequests
    /\ IF magicCardTarget(name) # Null
       THEN Call(Request(nReq + 1, magicCardTarget(name), NoHook))
       ELSE Becomes([State EXCEPT !.nReq = @ + 1])
    /\ cardArgs' = <<[name |-> name, options |-> options, from |-> current]>>
    /\ cardResult' =
           <<[target |-> magicCardTarget(name),
              duration |-> transitionDuration(magicCardOptions(options).duration)]>>
    /\ UNCHANGED <<idElement, idResult, timingArgs, timingResult, pcPure, registryVars,
                   fnVars, clockVars, secondVars, doc, defaultKeys>>

NextCard ==
    \/ \E scene \in Scenes : HostShowSceneNamedCall(scene)
    \/ \E scene \in Scenes : HostSceneShown(scene)
    \/ \E name \in CardNames, options \in CardOptions : MagicCardOptionsCall(name, options)

InitCard == PureIdle /\ EngineIdle(WellFormedDoc)

SpecCard == InitCard /\ [][NextCard]_vars

(***************************************************************************)
(* showNextSceneMagic and showPreviousSceneMagic, lines 1765-1790, called  *)
(* once with their arguments on a document that may be in a transition.    *)
(***************************************************************************)
\* Mutant: past the last scene comes the first, before the first the last.
adjacentRequestAround(step, duration, ease, options) ==
    LET n == Len(sceneNames)
    IN <<[targetSceneName |-> sceneNames[((current - 1 + step + n) % n) + 1],
          duration |-> duration, ease |-> ease, options |-> options]>>

\* Lines 1766-1771 (step 1) and 1784-1789 (step -1): the call of
\* showSceneNamedMagic that is made, if any.
adjacentRequest(step, duration, ease, options) ==
    IF current + step \in DOMAIN sceneNames
    THEN <<[targetSceneName |-> sceneNames[current + step],
            duration |-> duration, ease |-> ease, options |-> options]>>
    ELSE <<>>

MaxAdjacentRequests == 1

AdjacentCall(step, duration, ease, options) ==
    /\ fnResult = <<>>
    /\ \E request \in {adjacentRequest(step, duration, ease, options)} :
           /\ IF request # <<>>
              THEN Call(Request(nReq + 1, request[1].targetSceneName, request[1].options))
              ELSE Becomes([State EXCEPT !.nReq = @ + 1])
           /\ fnResult' = <<request>>
    /\ fnArgs' = <<[step |-> step, duration |-> duration, ease |-> ease, options |-> options,
                    from |-> current]>>
    /\ UNCHANGED <<idElement, idResult, timingArgs, timingResult, pcPure, registryVars,
                   cardVars, clockVars, secondVars, doc, defaultKeys>>

\* showNextSceneMagic(duration, ease, options)
ShowNextSceneMagicArgsCall(duration, ease, options) == AdjacentCall(1, duration, ease, options)

\* showPreviousSceneMagic(duration, ease, options)
ShowPreviousSceneMagicArgsCall(duration, ease, options) ==
    AdjacentCall(-1, duration, ease, options)

AdjacentHooks == {NoHook, [at |-> "onTransitionEnd", target |-> SceneNameOf[1]]}

NextAdjacent ==
    \/ \E scene \in Scenes : HostShowSceneNamedCall(scene)
    \/ \E target \in Range(SceneNameOf) :
           nReq < MaxAdjacentRequests /\ fnResult = <<>> /\ ShowSceneNamedMagicCall(target, NoHook)
    \/ \E duration \in {Undefined, Num(Scale)}, ease \in {Undefined, EaseNone},
          options \in AdjacentHooks : ShowNextSceneMagicArgsCall(duration, ease, options)
    \/ \E duration \in {Undefined, Num(Scale)}, ease \in {Undefined, EaseNone},
          options \in AdjacentHooks : ShowPreviousSceneMagicArgsCall(duration, ease, options)
    \/ \E t \in DOMAIN tls : CrossfadeEnds(t)
    \/ \E t \in DOMAIN tls : \E i \in DOMAIN tls[t].tweens : TweenEnds(t, i)
    \/ \E t \in DOMAIN tls : MasterCompletes(t)
    \/ Frame
    \/ \E scene \in Scenes : HostSceneShown(scene)

InitAdjacent == PureIdle /\ EngineIdle(WellFormedDoc)

SpecAdjacent == InitAdjacent /\ [][NextAdjacent]_vars

(***************************************************************************)
(* Two documents of one page. Lines 916-923: _pristineElementCache,        *)
(* _restoreElementCache and _documentStates are variables of the module,   *)
(* one of each for all documents; the lock, the scenes, the reference to   *)
(* the master timeline and the elements belong to a document.              *)
(***************************************************************************)
PageDocuments == {1, 2}
MaxPageRequests == 1

documentState(d) == IF d = 1 THEN State ELSE second

\* Line 1309 in one document, seen from another: _restoreElementCache is one
\* map, looked up by each document for its own elements only, so it is held
\* as the documents' parts. The assignment of a new map by the transition
\* that "after" has started leaves the part of the other document empty too.
restoreCacheReplaced(before, after, other) ==
    IF Len(after.tls) > Len(before.tls)
    THEN [other EXCEPT !.restoreCache = NoEntries]
    ELSE other

\* The callbacks a step of document d has added to the frame of the page.
requested(d, before, after) ==
    [i \in 1..(Len(after.raf) - Len(before.raf)) |-> d]

\* The page after a step of document d that leads its state to "after".
PageBecomes(d, after) ==
    \E other \in {restoreCacheReplaced(documentState(d), after, documentState(3 - d))} :
        /\ IF d = 1
           THEN Becomes(after) /\ second' = other
           ELSE Becomes(other) /\ second' = after
        /\ frameOrder' = frameOrder \o requested(d, documentState(d), after)
        /\ UNCHANGED <<idElement, idResult, timingArgs, timingResult, pcPure, registryVars,
                       cardVars, fnVars, clockVars, doc, defaultKeys>>

\* hypeDocument.showSceneNamedMagic(target) of document d
DocumentShowSceneNamedMagicCall(d, target) ==
    /\ documentState(d).nReq < MaxPageRequests
    /\ PageBecomes(d, Caught(showSceneNamedMagic(
                       [documentState(d) EXCEPT !.nReq = @ + 1],
                       Request(documentState(d).nReq + 1, target, NoHook))))

DocumentCrossfadeEnds(d, t) ==
    /\ documentState(d).tls[t].status = "running"
    /\ ~documentState(d).tls[t].fade
    /\ PageBecomes(d, onUpdate(crossfadeComplete(onStart(documentState(d), t), t), t))

DocumentTweenEnds(d, t, i) ==
    /\ documentState(d).tls[t].status = "running"
    /\ documentState(d).tls[t].tweens[i].st = "active"
    /\ PageBecomes(d, onUpdate(settle([onStart(documentState(d), t) EXCEPT
                                          !.tls[t].tweens[i].st = "done",
                                          !.style[documentState(d).tls[t].tweens[i].el] =
                                              documentState(d).tls[t].tweens[i].end]), t))

DocumentMasterCompletes(d, t) ==
    /\ documentState(d).tls[t].status = "running"
    /\ documentState(d).tls[t].fade
    /\ \A i \in DOMAIN documentState(d).tls[t].tweens :
           documentState(d).tls[t].tweens[i].st # "active"
    /\ PageBecomes(d, Caught(checkOpacity(
                       onUpdate(onStart([documentState(d) EXCEPT !.tls[t].status = "complete"],
                                        t), t), t)))

DocumentHostSceneShown(d, scene) ==
    /\ scene = documentState(d).current
    /\ ~documentState(d).hostOpaque[scene]
    /\ PageBecomes(d, [documentState(d) EXCEPT !.hostOpaque[scene] = TRUE])

\* One animation frame of the page: the callbacks of both documents in the
\* order they were requested. "page" holds the two documents, the callbacks
\* still to run and the order of those requested for the frame after.
RECURSIVE runPageCallbacks(_, _)
runPageCallbacks(page, order) ==
    IF order = <<>> THEN page
    ELSE LET d == Head(order)
             before == page.state[d]
             after == Caught(runCallback(before, Head(page.cbs[d])))
         IN only({runPageCallbacks(next, Tail(order)) :
                  next \in {[state |-> [page.state EXCEPT
                                           ![d] = after,
                                           ![3 - d] = restoreCacheReplaced(before, after, @)],
                             cbs |-> [page.cbs EXCEPT ![d] = Tail(@)],
                             order |-> page.order \o requested(d, before, after)]}})

PageFrame ==
    /\ frameOrder # <<>>
    /\ \E page \in {runPageCallbacks(
                        [state |-> <<[State EXCEPT !.raf = <<>>],
                                     [second EXCEPT !.raf = <<>>]>>,
                         cbs |-> <<raf, second.raf>>,
                         order |-> <<>>], frameOrder)} :
           /\ Becomes(page.state[1])
           /\ second' = page.state[2]
           /\ frameOrder' = page.order
    /\ UNCHANGED <<idElement, idResult, timingArgs, timingResult, pcPure, registryVars,
                   cardVars, fnVars, clockVars, doc, defaultKeys>>

PageTargets == {SceneNameOf[2], SceneNameOf[3]}

NextPage ==
    \/ \E d \in PageDocuments, target \in PageTargets :
           DocumentShowSceneNamedMagicCall(d, target)
    \/ \E d \in PageDocuments : \E t \in DOMAIN documentState(d).tls :
           DocumentCrossfadeEnds(d, t)
    \/ \E d \in PageDocuments : \E t \in DOMAIN documentState(d).tls :
           \E i \in DOMAIN documentState(d).tls[t].tweens : DocumentTweenEnds(d, t, i)
    \/ \E d \in PageDocuments : \E t \in DOMAIN documentState(d).tls :
           DocumentMasterCompletes(d, t)
    \/ PageFrame
    \/ \E d \in PageDocuments, scene \in Scenes : DocumentHostSceneShown(d, scene)

InitPage ==
    /\ idElement = Unset
    /\ idResult = Unset
    /\ timingArgs = Unset
    /\ timingResult = Unset
    /\ pcPure = "idle"
    /\ RegistryIdle
    /\ CardIdle
    /\ FnIdle
    /\ ClockIdle
    /\ EngineIdle(WellFormedDoc)
    /\ second = State
    /\ frameOrder = <<>>

SpecPage == InitPage /\ [][NextPage]_vars

(***************************************************************************)
(* Transitions between scenes whose matched elements are authored with     *)
(* different properties, the page's script changing an inline style and    *)
(* clearing the pristine cache in between.                                 *)
(***************************************************************************)
MaxStyleRequests == 2

Rotated == StyleOf(Scale, 45, Scale)
HalfOpaque == StyleOf(500, 0, Scale)
ScriptStyle == StyleOf(Scale, 90, Scale)

AuthoredStyles == (<<1, 1>> :> PlainStyle) @@ (<<2, 1>> :> Rotated) @@ (<<3, 1>> :> HalfOpaque)

ScriptedElements == {<<1, 1>>}

\* element.style is written by the page's script.
SetStyle(element, value) ==
    /\ style[element] # value
    /\ style' = [style EXCEPT ![element] = value]
    /\ UNCHANGED <<pureVars, doc, defaultKeys, current, lock, marks, sceneOpacity, hostOpaque,
                   ref, tls, raf, zIndex, pristine, restoreCache, log, thrown, guardSawEnded,
                   nReq>>

\* clearCachedMagicProperties(element); NoElement: called without argument.
clearCachedMagicProperties(s, element) ==
    IF element # NoElement
    THEN [s EXCEPT !.pristine = mapDelete(@, element)]
    ELSE [s EXCEPT !.pristine = NoEntries]

ClearCachedMagicPropertiesCall(element) ==
    /\ Becomes(clearCachedMagicProperties(State, element))
    /\ UNCHANGED <<pureVars, doc, defaultKeys>>

\* The matched elements carry a stacking order: in front, that of the target,
\* behind; the elements of scenes 2 and 3 sit in a wrapper container.
OrderedDoc ==
    [elems |-> << <<Ordered(DivMagicFoo, Front, FALSE)>>,
                  <<Ordered(DivMagicFoo, Target, TRUE)>>,
                  <<Ordered(DivIdFooBar, Back, TRUE)>> >>,
     present |-> <<TRUE, TRUE, TRUE>>]

InitStyles == PureIdle /\ EngineStyled(OrderedDoc, AuthoredStyles)

NextStyles ==
    \/ \E target \in Range(SceneNameOf) :
           nReq < MaxStyleRequests /\ ShowSceneNamedMagicCall(target, NoHook)
    \/ \E t \in DOMAIN tls : CrossfadeEnds(t)
    \/ \E t \in DOMAIN tls : \E i \in DOMAIN tls[t].tweens : TweenEnds(t, i)
    \/ \E t \in DOMAIN tls : MasterCompletes(t)
    \/ Frame
    \/ \E scene \in Scenes : HostSceneShown(scene)
    \/ \E element \in ScriptedElements : SetStyle(element, ScriptStyle)
    \/ \E element \in AllElements(doc) \cup {NoElement} : ClearCachedMagicPropertiesCall(element)

SpecStyles == InitStyles /\ [][NextStyles]_vars

(***************************************************************************)
(* exit or entrance animation, or whose element has an identifier that no  *)
(* element of the other scenes shares and no animation.  The page's script *)
(* changes an inline style before the first request and clears cached      *)
(* properties at any time.                                                 *)
(***************************************************************************)
FadeDoc ==
    [elems |-> << <<DivFadeOnly>>, <<DivMagicFoo>>, <<>> >>,
     present |-> <<TRUE, TRUE, TRUE>>]

LoneDoc ==
    [elems |-> << <<DivMagicFoo>>, <<DivMagicBar>>, <<>> >>,
     present |-> <<TRUE, TRUE, TRUE>>]

InitRestore == PureIdle /\ \E d \in {FadeDoc, LoneDoc} : EngineIdle(d)

NextRestore ==
    \/ \E target \in Range(SceneNameOf) :
           nReq < MaxStyleRequests /\ ShowSceneNamedMagicCall(target, NoHook)
    \/ \E t \in DOMAIN tls : CrossfadeEnds(t)
    \/ \E t \in DOMAIN tls : \E i \in DOMAIN tls[t].tweens : TweenEnds(t, i)
    \/ \E t \in DOMAIN tls : MasterCompletes(t)
    \/ Frame
    \/ \E scene \in Scenes : HostSceneShown(scene)
    \/ \E element \in ScriptedElements : nReq = 0 /\ SetStyle(element, ScriptStyle)
    \/ \E element \in AllElements(doc) \cup {NoElement} : ClearCachedMagicPropertiesCall(element)

SpecRestore == InitRestore /\ [][NextRestore]_vars

(***************************************************************************)
(* The engine with the services it relies on doing their work: the tweening *)
(* service advances every tween and timeline to its end, the browser runs   *)
(* every animation frame, the host ends its own crossfade.  Requests come   *)
(* when they come.                                                          *)
(***************************************************************************)
MaxLiveRequests == 2

Ticker ==
    \/ \E t \in DOMAIN tls : CrossfadeEnds(t)
    \/ \E t \in DOMAIN tls : \E i \in DOMAIN tls[t].tweens : TweenEnds(t, i)
    \/ \E t \in DOMAIN tls : MasterCompletes(t)

NextLive ==
    \/ \E target \in Range(SceneNameOf), hook \in Hooks :
           nReq < MaxLiveRequests /\ ShowSceneNamedMagicCall(target, hook)
    \/ Ticker
    \/ Frame
    \/ \E scene \in Scenes : HostSceneShown(scene)

IsPrefix(a, b) == Len(a) <= Len(b) /\ SubSeq(b, 1, Len(a)) = a

\* Weak fairness of Frame, written out.  A frame changes the state when one of
\* its callbacks is not an opacity check, or when the first check finds
\* opacity 1; no other step takes a callback out of the queue.
FrameEnabled ==
    /\ raf # <<>>
    /\ \/ \E i \in DOMAIN raf : raf[i].kind # "check"
       \/ opacityIsOne(State, tls[raf[1].t].tgt)
FrameStep == raf # <<>> /\ ~IsPrefix(raf, raf')
FrameFair == []<>(~FrameEnabled) \/ []<><<FrameStep>>_vars

\* Weak fairness of Ticker, written out.  A running timeline has a crossfade
\* or a tween that can end, or can complete; a step of Ticker changes a
\* running timeline without forcing it.
TickerEnabled == \E t \in DOMAIN tls : tls[t].status = "running"
TickerStep ==
    \E t \in DOMAIN tls :
        tls[t].status = "running" /\ tls'[t] # tls[t] /\ ~tls'[t].forced
TickerFair == []<>(~TickerEnabled) \/ []<><<TickerStep>>_vars

SpecLive ==
    /\ Init
    /\ [][NextLive]_vars
    /\ TickerFair
    /\ FrameFair
    /\ WF_vars(\E scene \in Scenes : HostSceneShown(scene))

(***************************************************************************)
(*                              Claims                                     *)
(***************************************************************************)

Running == {t \in DOMAIN tls : tls[t].status = "running"}

\* C1: a request that arrives while a master timeline is mid-flight first has
\* that timeline brought to completion (progress 1: no tween of it is still
\* pending; the tweens its crossfade cancelled on the outgoing scene are gone,
\* every other one is at its "to" values) before any tween of its own is
\* created, it starts no more than one master timeline of its own, and while
\* that timeline runs no other timeline is active.
C1_InterruptThenOneTimeline ==
    \A t \in DOMAIN tls :
        tls[t].after # 0 =>
            /\ tls[tls[t].after].status = "complete"
            /\ \A i \in DOMAIN tls[tls[t].after].tweens :
                   tls[tls[t].after].tweens[i].st \in {"done", "killed"}
            /\ \A u \in DOMAIN tls : tls[u].req = tls[t].req => u = t
            /\ tls[t].status = "running" => Running = {t}

\* A timeline started by a deferred retry runs beside another timeline.
C1_Witness ==
    \E t \in DOMAIN tls :
        tls[t].after # 0 /\ tls[t].status = "running" /\ Running # {t}

\* C2: in every reachable state at most one master timeline of the document is
\* running (created, and neither completed naturally nor force-completed),
\* whatever the sequence of calls, calls from end callbacks included.
C2_AtMostOneRunning == Cardinality(Running) <= 1

\* Two master timelines run and the document state references one of them.
C2_Witness == \E t, u \in Running : t # u /\ ref = u

\* C3: the reference of the document state is deleted by the cleanup of a
\* natural completion and by the guard that force-completes (before the retry
\* is scheduled): the reference never names a completed or cancelled timeline,
\* and the guard has never examined a request against one.
C3_ReferenceIsLive ==
    /\ ref # 0 => tls[ref].status = "running"
    /\ \A t \in DOMAIN tls : (tls[t].cleaned \/ tls[t].forced) => ref # t
    /\ \A i \in DOMAIN raf : raf[i].kind = "retry" => ref # raf[i].req.after
    /\ ~guardSawEnded

C3_Witness ==
    \E t, u \in DOMAIN tls :
        /\ tls[t].forced /\ tls[t].cleaned
        /\ tls[u].after = t
        /\ ~tls[u].forced /\ tls[u].cleaned
        /\ ref = 0

\* C4: a call whose target name is unknown to the host, or is the name of the
\* current scene, changes nothing in whatever state it is made: lock, role
\* markers, restore cache, reference, timelines and pending frames stay as they
\* are, and no callback or behaviour fires.
C4_NoOpCallChangesNothing ==
    [][\A target \in TargetNames :
           ((target = UnknownSceneName \/ target = SceneNameOf[current])
            /\ ShowSceneNamedMagicCall(target, NoHook))
           => UNCHANGED <<lock, marks, restoreCache, ref, tls, raf, log, current>>]_vars

\* A call with an unknown name has force-completed a transition and waits
\* for its retry.
C4_Witness ==
    \E i \in DOMAIN raf :
        /\ raf[i].kind = "retry"
        /\ raf[i].req.target = UnknownSceneName
        /\ tls[raf[i].req.after].forced

\* C5: a call whose target name is valid while no scene element is found for it
\* stops before it changes anything: the lock is not set, the restore cache is
\* not cleared, no role marker is added, nothing is fired, the host is not
\* asked to swap scenes, and nothing is thrown.
C5_MissingSceneElementAborts ==
    [][\A target \in TargetNames :
           (/\ sceneIndex(target) # 0
            /\ sceneIndex(target) # current
            /\ ~doc.present[sceneIndex(target)]
            /\ ShowSceneNamedMagicCall(target, NoHook))
           => UNCHANGED <<lock, marks, restoreCache, log, current, thrown>>]_vars

\* The call has thrown with the lock set and the outgoing scene marked.
C5_Witness ==
    /\ ~doc.present[2]
    /\ thrown
    /\ lock
    /\ "currentScene" \in marks[1]
    /\ tls = <<>>

\* C6: no call of showSceneNamedMagic, showNextSceneMagic,
\* showPreviousSceneMagic or magicCard throws, whatever the target name, the
\* elements' attribute values and the defaults installed through setDefault
\* (read here on documents whose scene elements are all found).
C6_NeverThrows == (\A sc \in Scenes : doc.present[sc]) => ~thrown

\* A call has thrown under the shipped defaults, on a directive without a value.
C6_Witness ==
    /\ \A sc \in Scenes : doc.present[sc]
    /\ defaultKeys = AllDefaultKeys
    /\ thrown
    /\ lock

idsOf(e) == getTransitionIdentifiers(ElemOf(e))

\* The last element, in iteration order, of the source-side candidates whose
\* identifiers overlap those of the target element.
lastMatch(sourceElms, targetElement) ==
    LET hits == {j \in 1..Len(sourceElms) :
                    idsIntersect(idsOf(sourceElms[j]), idsOf(targetElement))}
    IN sourceElms[CHOOSE j \in hits : \A k \in hits : j >= k]

\* C7: last match wins: the source element paired with a target element is the
\* last one, in iteration order, that shares an identifier with it.
C7_LastMatchWins ==
    \A t \in DOMAIN tls : \A i \in DOMAIN tls[t].tweens :
        tls[t].tweens[i].kind = "pairTarget" =>
            tls[t].tweens[i].partner =
                lastMatch(magicElms(tls[t].cur), tls[t].tweens[i].el)

\* A target element is paired with the first of two candidates.
C7_Witness ==
    \E t \in DOMAIN tls : \E i \in DOMAIN tls[t].tweens :
        /\ tls[t].tweens[i].kind = "pairTarget"
        /\ tls[t].tweens[i].partner = <<tls[t].cur, 1>>
        /\ lastMatch(magicElms(tls[t].cur), tls[t].tweens[i].el) = <<tls[t].cur, 2>>

\* C8: every pair has intersecting identifier sets, and between scenes of one
\* element each the pair is formed exactly when the two identifier sets
\* intersect.
C8_PairIffIntersect ==
    \A t \in DOMAIN tls :
        LET cur == tls[t].cur
            tgt == tls[t].tgt
            paired(a, b) == \E i \in DOMAIN tls[t].tweens :
                                /\ tls[t].tweens[i].kind = "pairTarget"
                                /\ tls[t].tweens[i].el = b
                                /\ tls[t].tweens[i].partner = a
        IN /\ \A i \in DOMAIN tls[t].tweens :
                  tls[t].tweens[i].kind = "pairTarget" =>
                      idsIntersect(idsOf(tls[t].tweens[i].el), idsOf(tls[t].tweens[i].partner))
           /\ (Len(doc.elems[cur]) = 1 /\ Len(doc.elems[tgt]) = 1 /\ ~thrown) =>
                  (paired(<<cur, 1>>, <<tgt, 1>>)
                      <=> idsIntersect(idsOf(<<cur, 1>>), idsOf(<<tgt, 1>>)))


\* Two single elements share an identifier and the timeline holds no pair.
C8_Witness ==
    \E t \in DOMAIN tls :
        /\ Len(doc.elems[tls[t].cur]) = 1 /\ Len(doc.elems[tls[t].tgt]) = 1
        /\ ~thrown
        /\ idsIntersect(idsOf(<<tls[t].cur, 1>>), idsOf(<<tls[t].tgt, 1>>))
        /\ tls[t].tweens = <<>>

\* What an identifier list is said to hold, read off the written pieces.
NonSpaceCore(t) ==
    LET idx == {i \in 1..Len(t) : t[i] # " "}
    IN IF idx = {} THEN <<>>
       ELSE SubSeq(t, CHOOSE i \in idx : \A j \in idx : i <= j,
                      CHOOSE i \in idx : \A j \in idx : i >= j)

HasMagicPrefix(l) == Len(l) >= 5 /\ SubSeq(l, 1, 5) = <<"m","a","g","i","c">>

ExpectedClassIds(el) ==
    {toLowerCase(SubSeq(c, 6, Len(c))) :
        c \in {k \in Range(el.classList) : Len(k) > 5 /\ HasMagicPrefix(toLowerCase(k))}}

ExpectedTokenIds(el) ==
    LET norm(t) == LET l == toLowerCase(NonSpaceCore(t))
                   IN IF HasMagicPrefix(l) THEN SubSeq(l, 6, Len(l)) ELSE l
    IN {norm(t) : t \in Range(el.tokens)} \ {<<>>}

MagicFooElement ==
    [classList |-> << <<"m","a","g","i","c","F","o","o">> >>,
     dataId |-> <<"F","O","O",","," ","b","a","r">>,
     tokens |-> << <<"F","O","O">>, <<" ","b","a","r">> >>]

\* C9: getTransitionIdentifiers returns, without duplicates, exactly the
\* lower-cased identifiers of the element's magic classes (prefix matched
\* case-insensitively, longer than the prefix, prefix removed) and of the
\* comma-separated data-transition-id tokens (trimmed, lower-cased, a leading
\* "magic" removed, empty ones dropped); class magicFoo with 'FOO, bar' gives
\* exactly foo and bar, an element with neither gives the empty list.
C9_Identifiers ==
    pcPure = "done" =>
        /\ Range(idResult) = ExpectedClassIds(idElement) \cup ExpectedTokenIds(idElement)
        /\ Cardinality(Range(idResult)) = Len(idResult)
        /\ idElement = MagicFooElement =>
               idResult = << <<"f","o","o">>, <<"b","a","r">> >>
        /\ (idElement.classList = <<>> /\ idElement.dataId = Null) => idResult = <<>>

C9_Witness ==
    /\ pcPure = "done"
    /\ idElement = MagicFooElement
    /\ idResult = << <<"f","o","o">>, <<"b","a","r">> >>

\* What a timing attribute is said to mean, by the unit it was written with.
ExpectedSeconds(spec, total) ==
    CASE spec.unit = "percent" -> (spec.value * total) \div (100 * Scale)
      [] spec.unit = "ms" -> spec.value \div 1000
      [] spec.unit = "s" -> spec.value
      [] spec.unit = "factor" -> (spec.value * total) \div Scale

FiftyPercentHalfSecond ==
    [delay |-> [js |-> Str(<<"5","0","%">>), unit |-> "percent", value |-> 50000],
     duration |-> [js |-> Str(<<"0",".","5","s">>), unit |-> "s", value |-> 500],
     total |-> 2000]

\* C10: calculateTimingValues converts delay and duration each on its own:
\* "%" is value/100 of the total duration, "ms" is value/1000 seconds, "s" is
\* value seconds, a number or unitless string is value times the total
\* duration; ('50%', '0.5s', 2) gives delay 1 and duration 0.5; nothing is
\* clamped to the total duration.
C10_TimingUnits ==
    pcPure = "done" =>
        /\ timingResult.delay = ExpectedSeconds(timingArgs.delay, timingArgs.total)
        /\ timingResult.duration = ExpectedSeconds(timingArgs.duration, timingArgs.total)
        /\ timingArgs = FiftyPercentHalfSecond =>
               timingResult = [delay |-> 1000, duration |-> 500]

C10_Witness ==
    /\ pcPure = "done"
    /\ timingArgs = FiftyPercentHalfSecond
    /\ timingResult = [delay |-> 1000, duration |-> 500]

\* The share of a duration a factor or percentage stands for.
IsShare(spec) == spec.unit \in {"percent", "factor"}
ShareOf(spec, window) ==
    IF spec.unit = "percent" THEN (spec.value * window) \div (100 * Scale)
    ELSE (spec.value * window) \div Scale

QuarterDelayFullDuration ==
    [delay |-> [js |-> Num(250), unit |-> "factor", value |-> 250],
     duration |-> [js |-> Num(1000), unit |-> "factor", value |-> 1000],
     total |-> 4000]

\* C11 (as stated): a factor or percentage duration is applied to the window
\* remaining after the delay; delay 0.25 and duration 1 against a total
\* duration of 4 give delay 1 and duration 3.
C11_RemainingWindow ==
    (pcPure = "done" /\ IsShare(timingArgs.duration)) =>
        /\ timingResult.duration =
               ShareOf(timingArgs.duration, timingArgs.total - timingResult.delay)
        /\ timingArgs = QuarterDelayFullDuration =>
               timingResult = [delay |-> 1000, duration |-> 3000]

\* C11 (amended): a factor or percentage duration is applied to the total
\* duration whatever the delay is; delay 0.25 and duration 1 against a total
\* duration of 4 give delay 1 and duration 4.
C11_TotalDuration ==
    (pcPure = "done" /\ IsShare(timingArgs.duration)) =>
        /\ timingResult.duration = ShareOf(timingArgs.duration, timingArgs.total)
        /\ timingArgs = QuarterDelayFullDuration =>
               timingResult = [delay |-> 1000, duration |-> 4000]

C11_Witness ==
    /\ pcPure = "done"
    /\ timingArgs = QuarterDelayFullDuration
    /\ timingResult = [delay |-> 1000, duration |-> 4000]

\* A call of clearCachedMagicProperties for this element, or for all of them.
ClearsEntry(e) ==
    ClearCachedMagicPropertiesCall(e) \/ ClearCachedMagicPropertiesCall(NoElement)

PairSources(t) ==
    {tls[t].tweens[i].el : i \in {j \in DOMAIN tls[t].tweens : tls[t].tweens[j].kind = "pairSource"}}

\* C13: once the restoration batch of a transition has run (one frame after
\* its cleanup), each matched source element that had an entry in the pristine
\* cache when the transition took it up has been set to exactly that entry.
C13_RestoreConvergence ==
    \A t \in DOMAIN tls :
        tls[t].batch =>
            \A e \in PairSources(t) \cap DOMAIN tls[t].entries :
                e \in DOMAIN tls[t].applied /\ tls[t].applied[e] = tls[t].entries[e]

\* The batch of a transition has run and has left its matched source element,
\* stopped between the ends of its tween, as it was.
C13_Witness ==
    \E t \in DOMAIN tls :
        /\ tls[t].batch /\ tls[t].cleaned
        /\ \E e \in PairSources(t) \cap DOMAIN tls[t].entries :
               /\ e \notin DOMAIN tls[t].applied
               /\ style[e] = Blend
               /\ pristine[e] = tls[t].entries[e]

\* The elements of timeline t that must be snapped back: the source element of
\* every pair and every element that plays an enter or exit animation.
MustRestore(t) ==
    {tls[t].tweens[i].el :
        i \in {j \in DOMAIN tls[t].tweens : tls[t].tweens[j].kind \in {"pairSource", "from", "to"}}}

\* C14: in every transition each source element of a matched pair and each
\* unmatched element given an enter or exit animation (target or source side,
\* with or without identifiers) is registered for restoration, the restore
\* cache holds its pristine entry, and the restoration batch sets it to
\* exactly that entry.
C14_RegisteredForRestoration ==
    \A t \in DOMAIN tls :
        \A e \in MustRestore(t) :
            /\ e \in tls[t].restore
            /\ e \in DOMAIN tls[t].entries
            /\ tls[t].entries[e] = pristine[e]
            /\ tls[t].batch => (e \in DOMAIN tls[t].applied /\ tls[t].applied[e] = pristine[e])

\* A target element with identifiers and no partner plays its enter animation
\* and is not registered for restoration.
C14_Witness ==
    \E t \in DOMAIN tls : \E i \in DOMAIN tls[t].tweens :
        /\ tls[t].tweens[i].kind = "from"
        /\ getTransitionIdentifiers(ElemOf(tls[t].tweens[i].el)) # <<>>
        /\ tls[t].tweens[i].el \in DOMAIN pristine
        /\ tls[t].tweens[i].el \notin tls[t].restore
        /\ restoreCache # NoEntries

\* The tween of the target element in the nested timeline k of timeline t.
TargetTween(t, k) ==
    CHOOSE i \in DOMAIN tls[t].tweens :
        tls[t].tweens[i].kind = "pairTarget" /\ inSub(tls[t].tweens[i], tls[t].subs[k])

\* The nested timeline k of timeline t completes in this step.
SubCompletes(t, k) == ~tls[t].subs[k].done /\ tls'[t].subs[k].done

\* The nested timelines that have set a z-index on the node and not completed.
OrderingSubs(n) ==
    {p \in UNION {{<<t, k>> : k \in DOMAIN tls[t].subs} : t \in DOMAIN tls} :
        tls[p[1]].subs[p[2]].zel = n /\ ~tls[p[1]].subs[p[2]].done}

\* C15: the z-index set on the target of a pair (or on its wrapper container)
\* for data-transition-order is gone once the nested timeline of the pair has
\* completed, by itself or forced by an interruption, and the step that
\* completes it leaves the target at the end values of its tween (or where it
\* was, when the tween had ended before); so a node carries a z-index set by
\* the engine only while a nested timeline that set it is pending, and none
\* does when no timeline is running.
C15_OrderCleared ==
    /\ [](\A n \in DOMAIN zIndex : zIndex[n].set => OrderingSubs(n) # {})
    /\ []((Running = {}) => \A n \in DOMAIN zIndex : ~zIndex[n].set)
    /\ [][\A t \in DOMAIN tls : \A k \in DOMAIN tls[t].subs :
            (SubCompletes(t, k) /\ Len(tls') = Len(tls)) =>
                /\ tls[t].subs[k].zel # NoNode => ~zIndex'[tls[t].subs[k].zel].set
                /\ style'[tls[t].subs[k].target] =
                       IF tls[t].tweens[TargetTween(t, k)].st = "active"
                          /\ tls'[t].tweens[TargetTween(t, k)].st = "done"
                       THEN tls[t].tweens[TargetTween(t, k)].end
                       ELSE style[tls[t].subs[k].target]]_vars

\* Two transitions have set a z-index, the first one forced to its end by the
\* request of the second, and both have completed: no z-index is left.
C15_Witness ==
    /\ Len(tls) = 2
    /\ tls[1].forced
    /\ \A t \in DOMAIN tls : tls[t].status = "complete" /\ tls[t].cleaned
    /\ \A t \in DOMAIN tls : \E k \in DOMAIN tls[t].subs :
           tls[t].subs[k].zel # NoNode /\ tls[t].subs[k].done
    /\ \A n \in DOMAIN zIndex : ~zIndex[n].set

\* The lifecycle of a transition from scene "from" to scene "to": what the call
\* that starts it does, and what its master timeline does afterwards.
AtRequest(from, to) ==
    << <<"onTransitionPrepare">>,
       <<"magicTransitionStart">>,
       <<"magicTransitionFrom_", removeWhitespace(SceneNameOf[from])>>,
       <<"magicTransitionTo_", removeWhitespace(SceneNameOf[to])>>,
       <<"magicTransition_", removeWhitespace(SceneNameOf[from]) \o <<"_","t","o","_">>
                                 \o removeWhitespace(SceneNameOf[to])>>,
       <<"showSceneNamed">> >>

Lifecycle(from, to) ==
    AtRequest(from, to) \o << <<"onTransitionStart">>, <<"onTransitionProgress">>,
                              <<"onTransitionEnd">>, <<"magicTransitionEnd">> >>

Pending(kind, t) == {i \in DOMAIN raf : raf[i].kind = kind /\ raf[i].t = t}

\* The master timeline of t has completed and its cleanup has not run.
Restoring(t) == tls[t].status = "complete" /\ ~tls[t].cleaned

Idle ==
    /\ ~lock
    /\ ref = 0
    /\ \A sc \in Scenes : marks[sc] = {}

EverCleaned(t) == (t \in DOMAIN tls) ~> (t \in DOMAIN tls /\ tls[t].cleaned)

\* The transition waits in Restoring: the opacity of its target scene is not 1.
Stalled(t) == Restoring(t) /\ ~opacityIsOne(State, tls[t].tgt)

\* C17: a transition whose master timeline has completed and whose cleanup has
\* not run has one opacity check requested for the next frame, and none of the
\* cleanup has happened for it: no onTransitionEnd, no magicTransitionEnd, no
\* restoration batch requested or run; a transition that is cleaned up has had
\* both end events and its restoration batch requested.  Every transition
\* that starts is in the end cleaned up, or waits in Restoring with the opacity
\* of its target scene not 1; when all are cleaned up the document is Idle:
\* no lock, no reference, no markers.
C17_ReturnsToIdle ==
    /\ [](\A t \in DOMAIN tls :
            /\ Restoring(t) =>
                   /\ Cardinality(Pending("check", t)) = 1
                   /\ <<"onTransitionEnd">> \notin Range(tls[t].events)
                   /\ <<"magicTransitionEnd">> \notin Range(tls[t].events)
                   /\ Pending("restore", t) = {} /\ ~tls[t].batch
            /\ tls[t].cleaned =>
                   /\ <<"onTransitionEnd">> \in Range(tls[t].events)
                   /\ <<"magicTransitionEnd">> \in Range(tls[t].events)
                   /\ Pending("restore", t) # {} \/ tls[t].batch)
    /\ <>[](\A t \in DOMAIN tls : tls[t].cleaned \/ Stalled(t))
    /\ <>[]((\A t \in DOMAIN tls : tls[t].cleaned) => Idle)

\* One transition waits in Restoring for the opacity of its target scene,
\* another one is cleaned up.
C17_Witness ==
    /\ \E t \in DOMAIN tls : Stalled(t) /\ Pending("check", t) # {}
    /\ \E t \in DOMAIN tls : tls[t].cleaned

\* The retries requested for the next frame.
Retries == {i \in DOMAIN raf : raf[i].kind = "retry"}

\* The request is one that starts a transition from the scene shown.
StartsFrom(r, scene) == sceneIndex(r.target) # 0 /\ r.target # SceneNameOf[scene]

\* C18: the request that interrupts a running transition starts no timeline in
\* the interrupting call: it is requested again, as it was, for the next
\* animation frame; when that frame runs the document is Idle (no lock, no
\* reference, no role markers), and the frame starts the transition of the
\* request instead of requesting it once more.
C18_RetryFromIdle ==
    [][/\ \A i \in Retries' :
              (i \notin DOMAIN raf \/ raf[i] # raf'[i]) =>
                  \A t \in DOMAIN tls' : tls'[t].req # raf'[i].req.id
       /\ \A i \in Retries :
              FrameStep =>
                  /\ Idle
                  /\ \A j \in Retries' : raf'[j].req.id # raf[i].req.id
                  /\ StartsFrom(raf[i].req, current) =>
                         \E t \in DOMAIN tls' \ DOMAIN tls : tls'[t].req = raf[i].req.id]_vars

\* A retry is waiting for its frame while another transition, started after
\* the interruption, is running.
C18_Witness ==
    \E i \in Retries :
        /\ lock /\ ref # 0
        /\ tls[ref].status = "running"
        /\ ref > raf[i].req.after

\* The elements of a scene, and those of a scene that share an identifier
\* with element e.
SceneElements(scene) == {<<scene, i>> : i \in 1..Len(doc.elems[scene])}

HasIdentifiers(e) == getTransitionIdentifiers(ElemOf(e)) # <<>>

Partners(e, scene) ==
    {p \in SceneElements(scene) :
        idsIntersect(getTransitionIdentifiers(ElemOf(p)), getTransitionIdentifiers(ElemOf(e)))}

\* The enter and exit tweens of element e in timeline t.
DirectiveTweens(t, e) ==
    {i \in DOMAIN tls[t].tweens :
        tls[t].tweens[i].el = e /\ tls[t].tweens[i].kind \in {"from", "to"}}

\* Element e plays the directive "animation" in timeline t as one tween of the
\* kind given, and plays no other directive: an entrance starts at the values
\* of the directive, an exit ends there.
PlaysOnly(t, e, kind, animation) ==
    /\ DirectiveTweens(t, e) # {}
    /\ \A i \in DirectiveTweens(t, e) : \A j \in DirectiveTweens(t, e) : i = j
    /\ \A i \in DirectiveTweens(t, e) :
           LET tw == tls[t].tweens[i]
               data == parseSimpleAnimation(animation)
           IN /\ tw.kind = kind
              /\ ~data.threw
              /\ kind = "from" => tw.start = animatedStyle(tw.end, data.props)
              /\ kind = "to" => tw.end = animatedStyle(tw.start, data.props)

\* What the fallback rule says of element e of scene "own" in timeline t, the
\* other scene being "other": the preferred directive is the first one that
\* is set.
FallbackRule(t, e, other, kind, preferred) ==
    LET animation == OrElse(getAttribute(ElemOf(e), preferred),
                            getAttribute(ElemOf(e), "data-transition-animation"))
    IN IF Partners(e, other) # {} \/ animation = Null
       THEN DirectiveTweens(t, e) = {}
       ELSE PlaysOnly(t, e, kind, animation)

\* C19: in every transition a target element with identifiers and no partner
\* in the source scene plays data-transition-animation-from, or failing that
\* data-transition-animation, as an entrance tween; a source element with
\* identifiers and no partner in the target scene plays
\* data-transition-animation-to, or failing that data-transition-animation, as
\* an exit tween; an element with a partner plays none of its directives.
C19_FallbackDirectives ==
    \A t \in DOMAIN tls :
        /\ \A e \in SceneElements(tls[t].tgt) :
               HasIdentifiers(e) =>
                   FallbackRule(t, e, tls[t].cur, "from", "data-transition-animation-from")
        /\ \A e \in SceneElements(tls[t].cur) :
               HasIdentifiers(e) =>
                   FallbackRule(t, e, tls[t].tgt, "to", "data-transition-animation-to")

\* A transition whose build has not thrown, with a target element of a class
\* MagicBar that carries a directive, has no partner and plays nothing.
C19_Witness ==
    /\ ~thrown
    /\ \E t \in DOMAIN tls : \E e \in SceneElements(tls[t].tgt) :
           /\ HasIdentifiers(e)
           /\ Partners(e, tls[t].cur) = {}
           /\ getAttribute(ElemOf(e), "data-transition-animation") # Null
           /\ DirectiveTweens(t, e) = {}

\* The calls of registerAnimation that returned before the lookup and whose
\* name differs from the name looked up in letter case at most.
RegisteredBefore(look) ==
    {j \in 1..look.at :
        /\ ~registrations[j].threw
        /\ toLowerCase(registrations[j].name) = toLowerCase(look.name)}

\* The animation a registration stores: the property map a string is parsed
\* to, or the object passed.
StoredAnimation(animation) ==
    IF animation.type = "string" THEN parsedAnimation(animation.chars).value ELSE animation

\* C20: the registry is a case-insensitive key-value store: a lookup returns
\* the animation of the most recent registration under the same name in any
\* letter case (a string as its parsed property map), whatever was registered
\* under other names, and null for a name never registered.
C20_RegistryKeyValueStore ==
    \A i \in DOMAIN lookedUp :
        LET regs == RegisteredBefore(lookedUp[i])
        IN IF regs = {} THEN lookedUp[i].result = JsNull
           ELSE lookedUp[i].result =
                    StoredAnimation(
                        registrations[CHOOSE j \in regs : \A k \in regs : k <= j].animation)

\* After a registration, a lookup of a name never registered has returned
\* something that is not null.
C20_Witness ==
    /\ \E j \in DOMAIN registrations : ~registrations[j].threw
    /\ lookedUp # <<>>
    /\ lookedUp[1].at = Len(registrations)
    /\ RegisteredBefore(lookedUp[1]) = {}
    /\ lookedUp[1].result # JsNull

\* The number of steps from scene c to scene k in a direction, a full round
\* for the scene itself.
StepsTo(c, k, direction) ==
    IF direction = ">"
    THEN (IF k > c THEN k - c ELSE k - c + Len(SceneNameOf))
    ELSE (IF k < c THEN c - k ELSE c - k + Len(SceneNameOf))

\* The nearest scene in a direction whose name starts with base, Null without one.
NearestNamed(c, base, direction) ==
    LET named == {k \in Scenes : startsWith(SceneNameOf[k], base)}
    IN IF named = {} THEN Null
       ELSE SceneNameOf[CHOOSE k \in named :
                \A j \in named : StepsTo(c, k, direction) <= StepsTo(c, j, direction)]

\* C21: the name magicCard resolves on scene c.
CardTarget(name, c) ==
    IF name = <<">">> THEN SceneNameOf[IF c = Len(SceneNameOf) THEN 1 ELSE c + 1]
    ELSE IF name = <<"<">> THEN SceneNameOf[IF c = 1 THEN Len(SceneNameOf) ELSE c - 1]
    ELSE IF Head(name) \in {">", "<"} THEN NearestNamed(c, Tail(name), Head(name))
    ELSE name

\* C21: magicCard called with a name resolves '>' to the scene after the
\* current one and '<' to the scene before it, wrapping round; '>Base' and
\* '<Base' to the nearest scene in that direction whose name starts with Base,
\* and requests no transition when there is none; any other name literally; a
\* numeric options argument is the duration of the request, as if passed to
\* showSceneNamedMagic.  The first call starts the transition to the resolved
\* scene when that is another scene.
C21_CardResolution ==
    \A i \in DOMAIN cardResult :
        LET args == cardArgs[i]
            expected == CardTarget(args.name, args.from)
        IN args.name # <<>> =>
              /\ cardResult[i].target = expected
              /\ args.options.kind = "number" =>
                     cardResult[i].duration = transitionDuration(Num(args.options.number))
              /\ nReq = 1 =>
                     IF expected = Null \/ sceneIndex(expected) \in {0, args.from}
                     THEN tls = <<>> /\ ~lock
                     ELSE /\ Len(tls) = 1
                          /\ tls[1].cur = args.from
                          /\ tls[1].tgt = sceneIndex(expected)

\* magicCard('<B', 2) called on the first scene has started the transition to
\* the last scene, with a duration of 2 seconds.
C21_Witness ==
    /\ cardArgs # <<>>
    /\ cardArgs[1].name = <<"<", "B">>
    /\ cardArgs[1].from = 1
    /\ cardArgs[1].options = CardNumber(2 * Scale)
    /\ cardResult[1].target = SceneNameOf[3]
    /\ cardResult[1].duration = Num(2 * Scale)
    /\ Len(tls) = 1
    /\ tls[1].tgt = 3

\* A step in which a transition starts: a master timeline is created.
TransitionStarts == Len(tls') > Len(tls)

\* The elements entered into the restore cache by a step.
EnteredRestoreCache ==
    {e \in DOMAIN restoreCache' : e \notin DOMAIN restoreCache \/ restoreCache[e] # restoreCache'[e]}

\* C22: the restore cache is emptied when a transition starts (it then holds
\* only what that transition has registered); an element is entered into it
\* only with a pristine entry, and with that entry as value; and the
\* restoration batch of a transition resets no element that had no pristine
\* entry when the transition registered it.
C22_RestoreCacheFromPristine ==
    /\ [][TransitionStarts => DOMAIN restoreCache' \subseteq tls'[Len(tls')].restore]_vars
    /\ [][\A e \in EnteredRestoreCache :
              e \in DOMAIN pristine' /\ restoreCache'[e] = pristine'[e]]_vars
    /\ [](\A t \in DOMAIN tls : DOMAIN tls[t].applied \subseteq DOMAIN tls[t].entries)

\* The batch of a transition has reset an element that the transition had
\* registered without a pristine entry.
C22_Witness ==
    \E t \in DOMAIN tls :
        /\ tls[t].batch
        /\ \E e \in tls[t].restore : e \notin DOMAIN tls[t].entries /\ e \in DOMAIN tls[t].applied

\* Element e of one of the scenes of timeline t has identifiers, no partner in
\* the other scene and no animation directive.
Static(t, e) ==
    /\ HasIdentifiers(e)
    /\ ~matchesAnimationSelector(ElemOf(e))
    /\ \/ e \in SceneElements(tls[t].cur) /\ Partners(e, tls[t].tgt) = {}
       \/ e \in SceneElements(tls[t].tgt) /\ Partners(e, tls[t].cur) = {}

\* The elements every transition so far has found static.
StaticElements ==
    {e \in AllElements(doc) :
        /\ \E t \in DOMAIN tls : Static(t, e)
        /\ \A t \in DOMAIN tls : e[1] \in {tls[t].cur, tls[t].tgt} => Static(t, e)}

\* C23: an element with identifiers, no partner and no animation directive is
\* left static by a transition: no transition creates a tween for it, and no
\* step from the request on (the start, the tweens, the completion, the
\* cleanup, the restoration) changes one of its tracked properties, so that
\* they are after the transition what they were before the request.
C23_LeftStatic ==
    /\ [](\A t \in DOMAIN tls : \A i \in DOMAIN tls[t].tweens :
              ~Static(t, tls[t].tweens[i].el))
    /\ [][\A e \in StaticElements' : style'[e] = style[e]]_vars

\* The restoration batch of the first transition has run and has set a source
\* element with an identifier, no partner and no directive to its pristine
\* entry, which is not the style the script had given it before the request.
C23_Witness ==
    /\ nReq = 1
    /\ Len(tls) = 1
    /\ \E e \in SceneElements(tls[1].cur) :
           /\ Static(1, e)
           /\ tls[1].batch
           /\ e \in DOMAIN tls[1].applied
           /\ tls[1].applied[e] # ScriptStyle
           /\ style[e] = tls[1].applied[e]

\* C24: with transform decomposition, for each rotation channel of a pair the
\* "from" set holds the from-angle and the "to" set the literal difference
\* toAngle - fromAngle as a relative value (10 to 380 degrees: +=370); a
\* channel with no difference is in neither set; width, and height, is in
\* neither set when it is 'auto' on both sides, and kept otherwise.
C24_LiteralDelta ==
    \A i \in DOMAIN fnResult :
        LET from == fnArgs[i].from
            to == fnArgs[i].to
            result == fnResult[i]
        IN /\ \A k \in RotationKeys :
                  IF to.angles[k].deg = from.angles[k].deg
                  THEN k \notin DOMAIN result.from /\ k \notin DOMAIN result.to
                  ELSE /\ k \in DOMAIN result.from /\ k \in DOMAIN result.to
                       /\ result.from[k] = Degrees(from.angles[k].deg * Scale)
                       /\ result.to[k] = RelativeBy((to.angles[k].deg - from.angles[k].deg) * Scale)
           /\ IF from.width = Auto /\ to.width = Auto
              THEN "width" \notin DOMAIN result.from /\ "width" \notin DOMAIN result.to
              ELSE /\ "width" \in DOMAIN result.from /\ result.from.width = from.width
                   /\ "width" \in DOMAIN result.to /\ result.to.width = to.width
           /\ "height" \notin DOMAIN result.from /\ "height" \notin DOMAIN result.to

\* A pair rotated from 10 to 380 degrees about Z, unchanged about X, with a
\* width of 'auto' on both sides: rotateZ is animated by +=370.
C24_Witness ==
    /\ fnResult # <<>>
    /\ fnArgs[1].from.angles.rotateZ.deg = 10
    /\ fnArgs[1].to.angles.rotateZ.deg = 380
    /\ fnArgs[1].from.angles.rotateX.deg = 10
    /\ fnArgs[1].to.angles.rotateX.deg = 10
    /\ fnArgs[1].from.width = Auto /\ fnArgs[1].to.width = Auto
    /\ fnResult[1].to.rotateZ = RelativeBy(370 * Scale)
    /\ "rotateX" \notin DOMAIN fnResult[1].to

\* C25: the element restyled for a pair with a stacking order is the target
\* element, or its parent when that is a HYPE_element_container wrapper; the
\* z-index it gets is a numeric directive as given, for 'front' the highest
\* z-index among the children of the restyled element's parent plus one, for
\* 'back' the lowest minus one, a child without a numeric z-index counting
\* as 0.
C25_StackingOrder ==
    \A i \in DOMAIN fnResult :
        LET fragment == fnArgs[i].fragment
            at == fnArgs[i].at
            wrapped == /\ fragment[at].children # <<>>
                       /\ ContainerClass \in fragment[at].classList
            grouped == fragment[at].children # <<>> /\ ~wrapped
            counted == IF grouped THEN {fragment[at].children[1].counts}
                       ELSE {fragment[k].counts : k \in DOMAIN fragment}
            result == fnResult[i]
        IN /\ result.element = (IF grouped THEN <<at, 1>> ELSE <<at>>)
           /\ fnArgs[i].order = Seven => result.zIndex = Seven
           /\ fnArgs[i].order = Front =>
                  \E z \in counted : /\ \A y \in counted : y <= z
                                     /\ result.zIndex = integerToString(z + 1)
           /\ fnArgs[i].order = Back =>
                  \E z \in counted : /\ \A y \in counted : y >= z
                                     /\ result.zIndex = integerToString(z - 1)

\* A target element inside a wrapper, next to a sibling of z-index 12, sent
\* to the front: the wrapper gets z-index 13.
C25_Witness ==
    /\ fnResult # <<>>
    /\ fnArgs[1].order = Front
    /\ Len(fnArgs[1].fragment) = 2
    /\ fnArgs[1].at = 1
    /\ fnArgs[1].fragment[1] = Parent(ContainerClass, ZAuto, Leaf(ZFive))
    /\ fnArgs[1].fragment[2] = Leaf(ZTwelve)
    /\ fnResult[1] = [element |-> <<1>>, zIndex |-> <<"1","3">>]

\* C26: parseSimpleAnimation never raises; the resulting property map has an
\* entry for exactly the keys of the well-formed key:value tokens of the
\* string, each with the value of the last such token, and none for a token
\* without colon or without value.
C26_MalformedSkipped ==
    \A i \in DOMAIN fnResult :
        LET tokens == fnArgs[i]
            kept == {k \in DOMAIN tokens : tokens[k].wellFormed}
            result == fnResult[i]
        IN /\ ~result.threw
           /\ DOMAIN result.props = {tokens[k].key : k \in kept}
           /\ \A k \in kept :
                  (\A j \in kept : tokens[j].key = tokens[k].key => j <= k)
                  => result.props[tokens[k].key] = tokens[k].value

\* 'opacity:0;scale' has been parsed and the call raised.
C26_Witness ==
    /\ fnResult # <<>>
    /\ directiveString(fnArgs[1]) = OpacityKey \o <<":","0",";">> \o ScaleKey
    /\ fnResult[1].threw

C28_Crossfade ==
    \A i \in DOMAIN clock :
        LET options == clockArgs[i].options
            duration == IF options.duration.type = "number" /\ options.duration.num # 0
                        THEN options.duration.num ELSE durationTransition
            factor == IF options.crossFadeFactor.type = "number"
                      THEN options.crossFadeFactor.num ELSE 500
            fades == {k \in DOMAIN clock[i].tweens : clock[i].tweens[k].kind = "crossfade"}
        IN /\ Cardinality(fades) = 1
           /\ \A k \in fades :
                  /\ clock[i].tweens[k].start = 0
                  /\ clock[i].tweens[k].end * Scale = duration * factor
                  /\ clock[i].time > 0 =>
                         (clock[i].tweens[k].st = "done" <=> clock[i].time >= clock[i].tweens[k].end)
                  /\ clock[i].tweens[k].st = "done" /\ clock[i].status = "running" =>
                         /\ "fadeComplete" \in clock[i].currentScene
                         /\ "fadeComplete" \in clock[i].targetScene
                         /\ \A j \in DOMAIN clock[i].tweens :
                                clock[i].tweens[j].kind = "source" => clock[i].tweens[j].st # "active"
                  /\ clock[i].tweens[k].st = "active" =>
                         /\ "fadeComplete" \notin clock[i].currentScene
                         /\ "fadeComplete" \notin clock[i].targetScene
           /\ clock[i].status = "complete" =>
                  /\ "fadeComplete" \notin clock[i].currentScene
                  /\ "fadeComplete" \notin clock[i].targetScene

\* A transition of 2 seconds with a crossfade factor of 0 and a source tween
\* that ends at 2.5 seconds: after the first tick both scenes are marked
\* fadeComplete, the source tween is cancelled, the timeline still runs.
C28_Witness ==
    /\ clock # <<>>
    /\ clockArgs[1].options.duration = Num(2000)
    /\ clockArgs[1].options.crossFadeFactor = Num(0)
    /\ clockArgs[1].subs = <<[side |-> "source", delay |-> 0, duration |-> 2500]>>
    /\ clock[1].status = "running"
    /\ clock[1].time = 250
    /\ clock[1].tweens[2] = [kind |-> "crossfade", start |-> 0, end |-> 0, st |-> "done"]
    /\ clock[1].tweens[3].st = "killed"
    /\ "fadeComplete" \in clock[1].currentScene
    /\ "fadeComplete" \in clock[1].targetScene

C30_LayoutPriority ==
    \A i \in DOMAIN fnResult :
        LET shown == fnArgs[i].current[fnArgs[i].shown]
            target == fnArgs[i].target
            named == {k \in DOMAIN target : target[k].name = shown.name}
            sized == {k \in DOMAIN target :
                         target[k].width = shown.width /\ target[k].height = shown.height}
            chosen == IF named # {} THEN CHOOSE k \in named : \A j \in named : k <= j
                      ELSE IF sized # {} THEN CHOOSE k \in sized : \A j \in sized : k <= j
                      ELSE 1
        IN /\ fnResult[i].targetSceneIdx = target[chosen].index
           /\ fnResult[i].currentSceneIdx = shown.index

\* The target scene has a layout of the size of the layout shown under
\* another name, followed by a layout of its name in another size: the second
\* one is chosen.
C30_Witness ==
    /\ fnResult # <<>>
    /\ fnArgs[1].current[fnArgs[1].shown].name = "Phone"
    /\ fnArgs[1].current[fnArgs[1].shown].width = 320
    /\ fnArgs[1].current[fnArgs[1].shown].height = 480
    /\ Len(fnArgs[1].target) = 2
    /\ fnArgs[1].target[1] = [name |-> "Desktop", width |-> 320, height |-> 480,
                              index |-> MaxLayouts + 1]
    /\ fnArgs[1].target[2] = [name |-> "Phone", width |-> 1024, height |-> 768,
                              index |-> MaxLayouts + 2]
    /\ fnResult[1].targetSceneIdx = MaxLayouts + 2

\* C31: a call of showNextSceneMagic on the last scene, or of
\* showPreviousSceneMagic on the first, makes no call of showSceneNamedMagic
\* and leaves the lock, the markers, the timelines, the caches, the frame
\* requests and the log as they are, whether or not a transition is running;
\* on any other scene it does what showSceneNamedMagic does for the scene
\* after (before) the current one, with the duration, ease and options given.
C31_Adjacent ==
    [][fnResult = <<>> /\ fnResult' # <<>> =>
          LET step == fnArgs'[1].step
          IN IF (step = 1 /\ current = Len(SceneNameOf)) \/ (step = -1 /\ current = 1)
             THEN /\ fnResult'[1] = <<>>
                  /\ UNCHANGED <<current, lock, marks, sceneOpacity, hostOpaque, ref, tls, raf,
                                 style, zIndex, pristine, restoreCache, log, thrown,
                                 guardSawEnded>>
             ELSE /\ fnResult'[1] = <<[targetSceneName |-> SceneNameOf[current + step],
                                      duration |-> fnArgs'[1].duration,
                                      ease |-> fnArgs'[1].ease,
                                      options |-> fnArgs'[1].options]>>
                  /\ Call(Request(nReq + 1, SceneNameOf[current + step], fnArgs'[1].options))]_vars

\* showNextSceneMagic has been called on the last scene while the transition
\* to it was running, and has requested nothing.
C31_Witness ==
    /\ fnResult = << <<>> >>
    /\ fnArgs[1].step = 1
    /\ fnArgs[1].from = Len(SceneNameOf)
    /\ lock
    /\ Len(tls) = 1
    /\ tls[1].status = "running"
    /\ nReq = 2

\* C32: between calls, whenever the input lock is on the document, the
\* document state references the master timeline created last, and every
\* step that finds the lock set creates no timeline; also after a transition
\* requested from onTransitionEnd or from a magicTransitionEnd behaviour.
C32_LockedMeansReferenced ==
    /\ [](lock => ref # 0 /\ ref = Len(tls))
    /\ [][lock => Len(tls') = Len(tls)]_vars

\* A transition requested from an end callback runs under the lock with no
\* reference to it in the document state.
C32_Witness ==
    /\ lock
    /\ ref = 0
    /\ \E t \in DOMAIN tls :
           /\ t > 1
           /\ tls[t].status = "running"
           /\ tls[t - 1].hook # NoHook
           /\ tls[t - 1].cleaned

\* C33: while a master timeline is running the input lock is on the
\* document, and a cleanup (the step that removes the lock) is always that of
\* the timeline created last, the one that set the lock, never that of an
\* earlier timeline.
C33_LockHeldWhileRunning ==
    /\ [](Running # {} => lock)
    /\ [][\A t \in DOMAIN tls : ~tls[t].cleaned /\ tls'[t].cleaned => t = Len(tls)]_vars

\* A master timeline runs without the lock: the cleanup of the timeline
\* created before it has removed the lock.
C33_Witness ==
    /\ ~lock
    /\ \E t \in Running :
           /\ t > 1
           /\ tls[t - 1].cleaned
           /\ ~tls[t - 1].forced

\* C34: when the restoration batch of a transition runs after a newer
\* transition has been requested, it still sets every element that the
\* transition registered with a pristine entry to that entry.
C34_BatchAfterNewRequest ==
    [][\A t \in DOMAIN tls :
           ~tls[t].batch /\ tls'[t].batch /\ Len(tls) > t =>
               \A e \in tls[t].restore \cap DOMAIN tls[t].entries :
                   /\ e \in DOMAIN tls'[t].applied
                   /\ tls'[t].applied[e] = tls[t].entries[e]]_vars

\* The batch of a finished transition has run after the next transition was
\* started and has reset nothing of what the transition had registered.
C34_Witness ==
    \E t \in DOMAIN tls :
        /\ tls[t].batch /\ tls[t].cleaned /\ ~tls[t].forced
        /\ Len(tls) > t
        /\ tls[t].restore \cap DOMAIN tls[t].entries # {}
        /\ DOMAIN tls[t].applied = {}

\* Every request made has settled: no master timeline runs or waits for its
\* cleanup and no callback waits for a frame.
Settled ==
    /\ raf = <<>>
    /\ \A t \in DOMAIN tls : tls[t].status = "complete" /\ tls[t].cleaned

\* C35: once the requests made have settled, the scene shown is the target of
\* the request made last; and the transitions start in the order in which
\* their requests were made, so the retry of an interrupting request starts
\* no transition after that of a request made later.
C35_LastRequestWins ==
    /\ [](Settled => \A t \in DOMAIN tls : tls[t].req = nReq => current = tls[t].tgt)
    /\ [][\A t \in DOMAIN tls' \ DOMAIN tls :
              \A u \in DOMAIN tls : tls[u].req <= tls'[t].req]_vars

\* Three requests have settled on the target of the second: its retry came
\* after the transition of the third.
C35_Witness ==
    /\ Settled
    /\ nReq = 3
    /\ Len(tls) = 3
    /\ tls[1].req = 1 /\ tls[2].req = 3 /\ tls[3].req = 2
    /\ \A t \in DOMAIN tls : tls[t].hook = NoHook
    /\ current = tls[3].tgt
    /\ current # tls[2].tgt

\* Source element e is handled in timeline t: it is the source side of a
\* pair, or it is registered for restoration.
SourceHandled(t, e) == e \in PairSources(t) \/ e \in tls[t].restore

\* C36: in every transition every source-scene element with identifiers is
\* the source side of a matched pair or is handled as source-only (registered
\* for restoration), and a source element that shares an identifier with some
\* target element is the source side of a pair.
C36_EverySourceHandled ==
    \A t \in DOMAIN tls : \A e \in SceneElements(tls[t].cur) :
        HasIdentifiers(e) =>
            /\ SourceHandled(t, e)
            /\ Partners(e, tls[t].tgt) # {} => e \in PairSources(t)

\* A build that has not thrown pairs the first source element and leaves a
\* later, selected source element that shares an identifier with a target
\* element without a pair and without registration.
C36_Witness ==
    \E t \in DOMAIN tls : \E e \in SceneElements(tls[t].cur) :
        /\ ~thrown
        /\ matchesMagicSelector(ElemOf(e))
        /\ Partners(e, tls[t].tgt) # {}
        /\ ~SourceHandled(t, e)
        /\ <<tls[t].cur, 1>> \in PairSources(t)

\* The restoration batch of a transition that is the newest of its document
\* resets every element the transition registered with a pristine entry.
BatchRestores(before, after) ==
    \A t \in DOMAIN before.tls :
        ~before.tls[t].batch /\ after.tls[t].batch /\ Len(after.tls) = t =>
            \A e \in before.tls[t].restore \cap DOMAIN before.tls[t].entries :
                /\ e \in DOMAIN after.tls[t].applied
                /\ after.tls[t].applied[e] = before.tls[t].entries[e]

\* C37: transitions of two documents do not interfere: whatever the other
\* document has started meanwhile, the restoration batch of a document's
\* transition resets every element that transition registered to its
\* pristine values.
C37_DocumentsIndependent ==
    [][BatchRestores(State, State') /\ BatchRestores(second, second')]_vars

\* Both documents have started one transition each; the batch of the first
\* document's transition has run and has reset none of its registered
\* elements.
C37_Witness ==
    /\ Len(tls) = 1
    /\ Len(second.tls) = 1
    /\ tls[1].batch
    /\ tls[1].restore \cap DOMAIN tls[1].entries # {}
    /\ tls[1].applied = NoEntries

\* Where an event of timeline t stands in the log.
Positions(entries, event, t) == {i \in DOMAIN entries : entries[i] = <<event, t>>}

\* Both end events of timeline t stand in the log once, ahead of the
\* onTransitionPrepare of timeline u.
EndsBefore(entries, t, u) ==
    \A event \in {"onTransitionEnd", "magicTransitionEnd"} :
        /\ Cardinality(Positions(entries, event, t)) = 1
        /\ \A i \in Positions(entries, event, t) :
               \A j \in Positions(entries, "onTransitionPrepare", u) : i < j

\* C38: a transition that a new request has interrupted has fired
\* onTransitionEnd and magicTransitionEnd exactly once each; when the retried
\* request starts its transition, both have fired before its
\* onTransitionPrepare and the interrupted transition is cleaned up (its
\* markers and the lock were removed just before its onTransitionEnd).
C38_InterruptedEndsFirst ==
    /\ [](\A t \in DOMAIN tls : tls[t].forced =>
             \A event \in {"onTransitionEnd", "magicTransitionEnd"} :
                 Cardinality(Positions(log, event, t)) = 1)
    /\ [][\A u \in DOMAIN tls' \ DOMAIN tls :
             tls'[u].after # 0 =>
                 /\ EndsBefore(log', tls'[u].after, u)
                 /\ tls'[tls'[u].after].cleaned]_vars

\* The transition of a retried request is running; the transition it
\* interrupted was forced to its end and has fired both end events.
C38_Witness ==
    \E u \in DOMAIN tls :
        /\ tls[u].after # 0
        /\ tls[u].status = "running"
        /\ tls[tls[u].after].forced
        /\ Positions(log, "onTransitionPrepare", u) # {}
        /\ EndsBefore(log, tls[u].after, u)

=============================================================================
